---------------------------- MODULE Spec2Model ----------------------------
(***************************************************************************)
(* A model of the directed-graph library of src/lib/full_graph_lib.c.      *)
(*                                                                         *)
(* The C program keeps two process-wide identifier counters and two        *)
(* recycle lists, graphs as singly linked lists of cells that hold a node  *)
(* struct BY VALUE, and each node's outgoing edges as a singly linked list *)
(* of malloc'ed cells that the node struct only points to.  Copying a node *)
(* struct (append_node(graph, other->node)) therefore copies the head      *)
(* pointer and shares the edge cells.  The model keeps exactly that:       *)
(*   - a graph is a sequence of node structs [id, label, edges], where     *)
(*     edges is the address of the first edge cell (NULL = 0);             *)
(*   - edge cells live in one heap, a sequence indexed by address, each    *)
(*     cell [edge, next, freed].                                           *)
(* Every C function is an operator over a memory record M (heap, counters, *)
(* recycle lists) that returns the new memory and the function's result.   *)
(***************************************************************************)
EXTENDS Integers, Sequences, FiniteSets, TLC

VARIABLES
    global_node_id,     \* counter of the node namespace
    revoked_node_ids,   \* recycle list of node ids (head = oldest)
    global_edge_id,     \* counter of the edge namespace
    revoked_edge_ids,   \* recycle list of edge ids (head = oldest)
    heap,               \* the malloc'ed edge cells, by address
    graph1,             \* first graph held by the caller
    graph2,             \* second graph held by the caller
    result,             \* graph returned by the last binary operation
    trace,              \* history: ids appended to / popped from each recycle list
    last,               \* history: the last operation, its arguments and its pre-state,
                        \* and the locals of a call that is still running
    phase               \* "build" while the caller builds graphs, "append" inside the loop
                        \* of vertex_contraction, then the operation's outcome

vars == << global_node_id, revoked_node_ids, global_edge_id, revoked_edge_ids,
           heap, graph1, graph2, result, trace, last, phase >>

-----------------------------------------------------------------------------
(* Program constants *)

NULL == 0
ERROR_ID == 0
COMPLEMENTED_EDGE_DEFAULT_LABEL == "complemented_edge"
COMPLEMENTED_EDGE_DEFAULT_WEIGHT == 0
SERIES_EDGE_DEFAULT_LABEL == "series_composition_edge"
SERIES_EDGE_DEFAULT_WEIGHT == 0
DEFAULT_LABEL_CARTESIAN_PRODUCT == "cartesian_product_edge"
DEFAULT_WEIGHT_CARTESIAN_PRODUCT == 0

(* Bounds of the model *)

MaxNodes == 2       \* nodes of a graph the caller builds step by step
MaxCells == 2       \* edge cells the caller allocates while building step by step
MaxRevoked == 2     \* ids the caller recycles while building step by step
LoadNodes == 3      \* nodes of a graph description given to a unary operation
LoadArcs == 3       \* edges of a graph description given to a unary operation
PairNodes == 2      \* nodes of each graph description given to a binary operation
PairArcs == 2       \* edges of each graph description given to a binary operation

(* Inputs the caller draws from *)

NodeLabels == {"A"}
EdgeInputs == { [weight |-> 3, label |-> "edge1"] }
NodeNames == << "A", "B", "C", "D", "E", "F" >>

-----------------------------------------------------------------------------
(* Sequence helpers *)

Range(s) == { s[i] : i \in DOMAIN s }

\* The element of a one-element set: a value computed once and then named
The(S) == CHOOSE x \in S : TRUE

RemoveAt(s, i) == SubSeq(s, 1, i - 1) \o SubSeq(s, i + 1, Len(s))

\* Index of the first element of s satisfying Test, 0 when there is none
FirstIndex(s, Test(_)) ==
    IF \E i \in DOMAIN s : Test(s[i])
    THEN CHOOSE i \in DOMAIN s : Test(s[i]) /\ \A j \in 1 .. (i - 1) : ~Test(s[j])
    ELSE 0

RECURSIVE Flatten(_)
Flatten(ss) == IF ss = <<>> THEN <<>> ELSE Head(ss) \o Flatten(Tail(ss))

-----------------------------------------------------------------------------
(* The memory record threaded through the C functions *)

Memory == [ heap |-> heap,
            global_node_id |-> global_node_id,
            revoked_node_ids |-> revoked_node_ids,
            global_edge_id |-> global_edge_id,
            revoked_edge_ids |-> revoked_edge_ids,
            trace |-> trace ]

EmptyTrace == [ node_in |-> <<>>, node_out |-> <<>>, edge_in |-> <<>>, edge_out |-> <<>> ]

\* The addresses of the cells of the list starting at p, in list order
RECURSIVE ListCells(_, _)
ListCells(h, p) == IF p = NULL THEN <<>> ELSE <<p>> \o ListCells(h, h[p].next)

\* The edge structs of the list starting at p, in list order
EdgesOf(h, p) == LET cs == ListCells(h, p) IN [ i \in DOMAIN cs |-> h[cs[i]].edge ]

-----------------------------------------------------------------------------
(* Revoked id lists *)

\* A push at the head instead of the walk to the tail
append_revoked_id_AtHead(list, id) == << id >> \o list

append_revoked_id(list, id) == Append(list, id)

\* The head is read but never unlinked
pop_front_revoked_id_KeepsHead(list) ==
    IF list # <<>> THEN [ list |-> list, id |-> Head(list) ]
                   ELSE [ list |-> list, id |-> ERROR_ID ]

pop_front_revoked_id(list) ==
    IF list # <<>> THEN [ list |-> Tail(list), id |-> Head(list) ]
                   ELSE [ list |-> list, id |-> ERROR_ID ]

\* revoked_node_ids = append_revoked_id(revoked_node_ids, id), with its history
RevokeNodeId(M, id) ==
    [ M EXCEPT !.revoked_node_ids = append_revoked_id(@, id),
               !.trace.node_in = Append(@, id) ]

\* revoked_edge_ids = append_revoked_id(revoked_edge_ids, id), with its history
RevokeEdgeId(M, id) ==
    [ M EXCEPT !.revoked_edge_ids = append_revoked_id(@, id),
               !.trace.edge_in = Append(@, id) ]

RECURSIVE RevokeEdgeIds(_, _)
RevokeEdgeIds(M, ids) ==
    IF ids = <<>> THEN M ELSE RevokeEdgeIds(RevokeEdgeId(M, Head(ids)), Tail(ids))

-----------------------------------------------------------------------------
(* Constructors *)

create_new_node(M, label) ==
    IF M.revoked_node_ids # <<>>
    THEN LET p == pop_front_revoked_id(M.revoked_node_ids)
         IN  [ m |-> [ M EXCEPT !.revoked_node_ids = p.list,
                                !.trace.node_out = Append(@, p.id) ],
               node |-> [ id |-> p.id, label |-> label, edges |-> NULL ] ]
    ELSE [ m |-> [ M EXCEPT !.global_node_id = @ + 1 ],
           node |-> [ id |-> M.global_node_id, label |-> label, edges |-> NULL ] ]

\* The id is read from the pool or the counter, and neither is advanced
create_new_edge_Reissues(M, weight, label, endpoint_ids) ==
    [ m |-> M,
      edge |-> [ weight |-> weight,
                 id |-> IF M.revoked_edge_ids # <<>> THEN Head(M.revoked_edge_ids)
                        ELSE M.global_edge_id,
                 label |-> label, endpoint_ids |-> endpoint_ids ] ]

create_new_edge(M, weight, label, endpoint_ids) ==
    IF M.revoked_edge_ids # <<>>
    THEN LET p == pop_front_revoked_id(M.revoked_edge_ids)
         IN  [ m |-> [ M EXCEPT !.revoked_edge_ids = p.list,
                                !.trace.edge_out = Append(@, p.id) ],
               edge |-> [ weight |-> weight, id |-> p.id, label |-> label,
                          endpoint_ids |-> endpoint_ids ] ]
    ELSE [ m |-> [ M EXCEPT !.global_edge_id = @ + 1 ],
           edge |-> [ weight |-> weight, id |-> M.global_edge_id, label |-> label,
                      endpoint_ids |-> endpoint_ids ] ]

-----------------------------------------------------------------------------
(* Lookup *)

\* Position of the first node of the graph with this id, 0 (NULL) when absent
find_node(graph, id) == FirstIndex(graph, LAMBDA n : n.id = id)

\* What &(ptr->node) can give when the walk ends with ptr = NULL (line 1165): the null
\* pointer, the node being the first member, or a trap in a build that checks the access
NullReads == { "null", "trap" }

\* The lookup ends with the member access on a null pointer
MissesNode(graph, id) == find_node(graph, id) = NULL

get_node_from_id(graph, id) == find_node(graph, id)

exists_node_from_id(M, node_id) ==
    /\ node_id <= M.global_node_id
    /\ node_id \notin Range(M.revoked_node_ids)

exists_edge_from_id(M, edge_id) ==
    /\ edge_id <= M.global_edge_id
    /\ edge_id \notin Range(M.revoked_edge_ids)

graph_dim(graph) == Len(graph)

-----------------------------------------------------------------------------
(* Graph list and edge list actions *)

\* A new cell in front of the list, only when the list has a cell already
push_node(graph, node) == IF graph # <<>> THEN << node >> \o graph ELSE graph

append_node(graph, node) == Append(graph, node)

\* malloc of a new cell, linked after the last cell of the list, or the new head
append_edge(M, edges, edge) ==
    LET elem == Len(M.heap) + 1
        cell == [ edge |-> edge, next |-> NULL, freed |-> FALSE ]
        cs   == ListCells(M.heap, edges)
    IN  IF edges # NULL
        THEN [ m |-> [ M EXCEPT !.heap = Append([ @ EXCEPT ![cs[Len(cs)]].next = elem ], cell) ],
               edges |-> edges ]
        ELSE [ m |-> [ M EXCEPT !.heap = Append(@, cell) ],
               edges |-> elem ]

\* malloc of a new cell linked in front of the list, only when the list has a cell already
push_edge(M, edges, edge) ==
    IF edges # NULL
    THEN [ m |-> [ M EXCEPT !.heap = Append(@, [ edge |-> edge, next |-> edges,
                                                 freed |-> FALSE ]) ],
           edges |-> Len(M.heap) + 1 ]
    ELSE [ m |-> M, edges |-> edges ]

\* The cell is unlinked and freed, its id forgotten
delete_edge_KeepsId(M, edges, id) ==
    IF edges # NULL /\ exists_edge_from_id(M, id)
    THEN LET cs == ListCells(M.heap, edges)
             k  == FirstIndex(cs, LAMBDA c : M.heap[c].edge.id = id)
         IN  IF k = 0 THEN [ m |-> M, edges |-> edges ]
             ELSE IF k = 1
                  THEN [ m |-> [ M EXCEPT !.heap[cs[k]].freed = TRUE ],
                         edges |-> M.heap[cs[k]].next ]
                  ELSE [ m |-> [ M EXCEPT !.heap[cs[k - 1]].next = M.heap[cs[k]].next,
                                          !.heap[cs[k]].freed = TRUE ],
                         edges |-> edges ]
    ELSE [ m |-> M, edges |-> edges ]

delete_edge(M, edges, id) ==
    IF edges # NULL /\ exists_edge_from_id(M, id)
    THEN LET cs == ListCells(M.heap, edges)
             k  == FirstIndex(cs, LAMBDA c : M.heap[c].edge.id = id)
         IN  IF k = 0 THEN [ m |-> M, edges |-> edges ]
             ELSE LET del == cs[k]
                      M1  == RevokeEdgeId(M, M.heap[del].edge.id)
                  IN  IF k = 1
                      THEN [ m |-> [ M1 EXCEPT !.heap[del].freed = TRUE ],
                             edges |-> M.heap[del].next ]
                      ELSE [ m |-> [ M1 EXCEPT !.heap[cs[k - 1]].next = M.heap[del].next,
                                               !.heap[del].freed = TRUE ],
                             edges |-> edges ]
    ELSE [ m |-> M, edges |-> edges ]

\* The cells are freed, their ids forgotten
delete_edge_list_KeepsIds(M, edges) ==
    LET cs == ListCells(M.heap, edges)
    IN  [ m |-> [ M EXCEPT !.heap = [ a \in DOMAIN @ |->
                                       IF a \in Range(cs) THEN [ @[a] EXCEPT !.freed = TRUE ]
                                       ELSE @[a] ] ],
          edges |-> NULL ]

delete_edge_list(M, edges) ==
    LET cs  == ListCells(M.heap, edges)
        ids == [ i \in DOMAIN cs |-> M.heap[cs[i]].edge.id ]
        M1  == RevokeEdgeIds(M, ids)
    IN  [ m |-> [ M1 EXCEPT !.heap = [ a \in DOMAIN @ |->
                                        IF a \in Range(cs) THEN [ @[a] EXCEPT !.freed = TRUE ]
                                        ELSE @[a] ] ],
          edges |-> NULL ]

\* The head cell is unlinked whichever cell holds the id
delete_node_UnlinksHead(M, graph, id) ==
    LET del == find_node(graph, id)
    IN  IF del # 0
        THEN [ m |-> RevokeNodeId(M, Head(graph).id), graph |-> Tail(graph) ]
        ELSE [ m |-> M, graph |-> graph ]

delete_node(M, graph, id) ==
    LET del == find_node(graph, id)
    IN  IF del # 0
        THEN [ m |-> RevokeNodeId(M, graph[del].id), graph |-> RemoveAt(graph, del) ]
        ELSE [ m |-> M, graph |-> graph ]

\* Only the node ids are revoked
RECURSIVE delete_graph_NodesOnly(_, _)
delete_graph_NodesOnly(M, graph) ==
    IF graph = <<>> THEN [ m |-> M, graph |-> graph ]
    ELSE delete_graph_NodesOnly(RevokeNodeId(M, Head(graph).id), Tail(graph))

RECURSIVE delete_graph(_, _)
delete_graph(M, graph) ==
    IF graph = <<>> THEN [ m |-> M, graph |-> graph ]
    ELSE LET n  == Head(graph)
             M1 == RevokeNodeId(M, n.id)
             cs == ListCells(M.heap, n.edges)
             M2 == RevokeEdgeIds(M1, [ i \in DOMAIN cs |-> M.heap[cs[i]].edge.id ])
         IN  delete_graph(M2, Tail(graph))


-----------------------------------------------------------------------------
(* Loading a graph from its textual description *)

\* Id of the first node carrying the label, ERROR_ID when no node carries it
get_id_from_node_label(graph, label) ==
    LET k == FirstIndex(graph, LAMBDA n : n.label = label)
    IN  IF k = 0 THEN ERROR_ID ELSE graph[k].id

\* First pass of load_graph: one node per line, in file order
RECURSIVE LoadAllNodes(_, _, _)
LoadAllNodes(M, graph, lines) ==
    IF lines = <<>> THEN [ m |-> M, graph |-> graph ]
    ELSE LET c == create_new_node(M, Head(lines).label)
         IN  LoadAllNodes(c.m, append_node(graph, c.node), Tail(lines))

\* The edges of one line, appended to the node in file order
RECURSIVE LoadEdges(_, _, _, _)
LoadEdges(M, graph, i, es) ==
    IF es = <<>> THEN [ m |-> M, graph |-> graph ]
    ELSE LET e == Head(es)
             c == create_new_edge(M, e.weight, e.label,
                                  << graph[i].id, get_id_from_node_label(graph, e.dest) >>)
             a == append_edge(c.m, graph[i].edges, c.edge)
         IN  LoadEdges(a.m, [ graph EXCEPT ![i].edges = a.edges ], i, Tail(es))

\* Second pass of load_graph: line i describes the edges of the i-th node
RECURSIVE LoadLines(_, _, _, _)
LoadLines(M, graph, lines, i) ==
    IF i > Len(lines) THEN [ m |-> M, graph |-> graph ]
    ELSE LET l == LoadEdges(M, graph, i, lines[i].edges)
         IN  LoadLines(l.m, l.graph, lines, i + 1)

\* lines: a sequence of [label, edges], edges a sequence of [dest, label, weight]
load_graph(M, lines) ==
    LET n == LoadAllNodes(M, <<>>, lines)
    IN  LoadLines(n.m, n.graph, lines, 1)

-----------------------------------------------------------------------------
(* Unary operations *)

delete_edge_from_node(M, graph, node_id, edge_id) ==
    LET k == find_node(graph, node_id)
    IN  IF k # 0
        THEN LET d == delete_edge(M, graph[k].edges, edge_id)
             IN  [ m |-> d.m, graph |-> [ graph EXCEPT ![k].edges = d.edges ] ]
        ELSE [ m |-> M, graph |-> graph ]

\* ptr2 = append_edge(ptr2, ptr->edge) for every edge struct of es, in order
RECURSIVE AppendEdges(_, _, _)
AppendEdges(M, ptr2, es) ==
    IF es = <<>> THEN [ m |-> M, edges |-> ptr2 ]
    ELSE LET a == append_edge(M, ptr2, Head(es))
         IN  AppendEdges(a.m, a.edges, Tail(es))

\* The first edge of the list whose destination is dest: its id, ERROR_ID when none
FirstEdgeTo(h, edges, dest) ==
    LET es == EdgesOf(h, edges)
        k  == FirstIndex(es, LAMBDA e : e.endpoint_ids[2] = dest)
    IN  IF k = 0 THEN ERROR_ID ELSE es[k].id

\* Lines 2342-2366: unlink the first merge->donor edge and the first donor->merge edge
Unlink(M, graph, from_id, to_id) ==
    LET k  == find_node(graph, from_id)
        id == FirstEdgeTo(M.heap, graph[k].edges, to_id)
        es == EdgesOf(M.heap, graph[k].edges)
    IN  IF \E j \in DOMAIN es : es[j].endpoint_ids[2] = to_id
        THEN delete_edge_from_node(M, graph, from_id, id)
        ELSE [ m |-> M, graph |-> graph ]

\* The appended edges keep the donor as their beginning
Rebase_Skipped(h, ptr2, first_node_id) == h

\* Lines 2382-2395: every cell of the list gets the merge node as its beginning
Rebase(h, ptr2, first_node_id) ==
    LET cs == Range(ListCells(h, ptr2))
    IN  [ a \in DOMAIN h |->
            IF a \in cs /\ h[a].edge.endpoint_ids[1] # first_node_id
            THEN [ h[a] EXCEPT !.edge.endpoint_ids =
                     << first_node_id,
                        IF @[1] = @[2] THEN first_node_id ELSE @[2] >> ]
            ELSE h[a] ]

\* The inward edges are left pointing to the donor
Redirect_Skipped(h, graph, first_node_id, second_node_id) == h

\* Lines 2405-2428: every edge into the donor, of any node but the donor, is redirected
Redirect(h, graph, first_node_id, second_node_id) ==
    LET cs == UNION { Range(ListCells(h, graph[i].edges)) :
                        i \in { j \in DOMAIN graph : graph[j].id # second_node_id } }
    IN  [ a \in DOMAIN h |->
            IF a \in cs /\ h[a].edge.endpoint_ids[2] = second_node_id
            THEN [ h[a] EXCEPT !.edge.endpoint_ids[2] = first_node_id ]
            ELSE h[a] ]

\* The donor's id is revoked although a lookup failed
vertex_contraction_RevokesAnyway(M, graph, first_node_id, second_node_id) ==
    LET merge_node == get_node_from_id(graph, first_node_id)
        donor_node == get_node_from_id(graph, second_node_id)
    IN  IF merge_node # NULL /\ donor_node # NULL
        THEN LET u1 == Unlink(M, graph, first_node_id, second_node_id)
                 u2 == Unlink(u1.m, u1.graph, second_node_id, first_node_id)
                 ap == AppendEdges(u2.m, u2.graph[merge_node].edges,
                                   EdgesOf(u2.m.heap, u2.graph[donor_node].edges))
                 h1 == Rebase(ap.m.heap, ap.edges, first_node_id)
                 h2 == Redirect(h1, u2.graph, first_node_id, second_node_id)
             IN  delete_node([ ap.m EXCEPT !.heap = h2 ], u2.graph, second_node_id)
        ELSE [ m |-> RevokeNodeId(M, second_node_id), graph |-> graph ]

vertex_contraction(M, graph, first_node_id, second_node_id) ==
    LET merge_node == get_node_from_id(graph, first_node_id)
        donor_node == get_node_from_id(graph, second_node_id)
    IN  IF merge_node # NULL /\ donor_node # NULL
        THEN The({ The({ The({ delete_node(
                                 [ ap.m EXCEPT !.heap =
                                     Redirect(Rebase(ap.m.heap, ap.edges, first_node_id),
                                              u2.graph, first_node_id, second_node_id) ],
                                 u2.graph, second_node_id) :
                   \* the appended cells hang off the local ptr2, never off merge_node->edges
                   ap \in { AppendEdges(u2.m, u2.graph[merge_node].edges,
                                        EdgesOf(u2.m.heap, u2.graph[donor_node].edges)) } }) :
                   u2 \in { Unlink(u1.m, u1.graph, second_node_id, first_node_id) } }) :
                   u1 \in { Unlink(M, graph, first_node_id, second_node_id) } })
        ELSE [ m |-> M, graph |-> graph ]

\* What a read of template_ptr->next can give after the cell was freed (line 2532)
FreedReads == { "stale", "null", "trap" }

\* The edge's own end is compared instead of its far end
create_graph_matrix_SourceEnd(h, graph) ==
    [ i \in 1 .. graph_dim(graph) |-> [ j \in 1 .. graph_dim(graph) |->
        IF \E e \in Range(EdgesOf(h, graph[i].edges)) : e.endpoint_ids[1] = graph[j].id
        THEN 1 ELSE 0 ] ]

create_graph_matrix(h, graph) ==
    [ i \in 1 .. graph_dim(graph) |-> [ j \in 1 .. graph_dim(graph) |->
        IF \E e \in Range(EdgesOf(h, graph[i].edges)) : e.endpoint_ids[2] = graph[j].id
        THEN 1 ELSE 0 ] ]

\* Lines 2493-2509: one new edge from the node to every node of the graph, itself included
RECURSIVE BuildTemplate(_, _, _, _, _)
BuildTemplate(M, graph, j, template, node_id) ==
    IF j > Len(graph) THEN [ m |-> M, edges |-> template ]
    ELSE LET c == create_new_edge(M, COMPLEMENTED_EDGE_DEFAULT_WEIGHT,
                                  COMPLEMENTED_EDGE_DEFAULT_LABEL,
                                  << node_id, graph[j].id >>)
             a == append_edge(c.m, template, c.edge)
         IN  BuildTemplate(a.m, graph, j + 1, a.edges, node_id)

\* The test of lines 2522-2525
SameEndpoints_SourceOnly(e, t) == e.endpoint_ids[1] = t.endpoint_ids[1]

SameEndpoints(e, t) ==
    e.endpoint_ids[1] = t.endpoint_ids[1] /\ e.endpoint_ids[2] = t.endpoint_ids[2]

\* Lines 2520-2533: the walk of the template for one old edge.  After delete_edge has
\* freed the cell template_ptr points to, template_ptr->next is read from freed memory.
RECURSIVE ScanTemplate(_, _, _, _, _)
ScanTemplate(M, template, template_ptr, e, freed_read) ==
    IF template_ptr = NULL THEN [ m |-> M, edges |-> template, trap |-> FALSE ]
    ELSE IF SameEndpoints(e, M.heap[template_ptr].edge)
         THEN LET d == delete_edge(M, template, M.heap[template_ptr].edge.id)
              IN  IF ~ d.m.heap[template_ptr].freed
                  THEN ScanTemplate(d.m, d.edges, d.m.heap[template_ptr].next, e, freed_read)
                  ELSE CASE freed_read = "stale" ->
                                ScanTemplate(d.m, d.edges, d.m.heap[template_ptr].next,
                                             e, freed_read)
                         [] freed_read = "null" ->
                                [ m |-> d.m, edges |-> d.edges, trap |-> FALSE ]
                         [] OTHER ->
                                [ m |-> d.m, edges |-> d.edges, trap |-> TRUE ]
         ELSE ScanTemplate(M, template, M.heap[template_ptr].next, e, freed_read)

\* Lines 2516-2536: every old edge of the node, in list order, against the template
RECURSIVE RemoveOld(_, _, _, _)
RemoveOld(M, template, es, freed_read) ==
    IF es = <<>> THEN [ m |-> M, edges |-> template, trap |-> FALSE ]
    ELSE LET r == ScanTemplate(M, template, template, Head(es), freed_read)
         IN  IF r.trap THEN r ELSE RemoveOld(r.m, r.edges, Tail(es), freed_read)

RECURSIVE ComplementFrom(_, _, _, _)
ComplementFrom(M, graph, i, freed_read) ==
    IF i > Len(graph) THEN [ m |-> M, graph |-> graph, trap |-> FALSE ]
    ELSE LET t == BuildTemplate(M, graph, 1, NULL, graph[i].id)
             r == RemoveOld(t.m, t.edges, EdgesOf(t.m.heap, graph[i].edges), freed_read)
             d == delete_edge_list(r.m, graph[i].edges)
         IN  IF r.trap THEN [ m |-> r.m, graph |-> graph, trap |-> TRUE ]
             ELSE ComplementFrom(d.m, [ graph EXCEPT ![i].edges = r.edges ], i + 1,
                                 freed_read)

complement_graph(M, graph, freed_read) == ComplementFrom(M, graph, 1, freed_read)

-----------------------------------------------------------------------------
(* Copies and binary operations *)

\* The old node structs' ids are kept
RECURSIVE CopyNodes_SameIds(_, _, _)
CopyNodes_SameIds(M, graph, old) ==
    IF old = <<>> THEN [ m |-> M, graph |-> graph ]
    ELSE CopyNodes_SameIds(M, append_node(graph, [ Head(old) EXCEPT !.edges = NULL ]),
                           Tail(old))

\* Lines 1081-1091: one new node per node of the old graph, with its label
RECURSIVE CopyNodes(_, _, _)
CopyNodes(M, graph, old) ==
    IF old = <<>> THEN [ m |-> M, graph |-> graph ]
    ELSE LET c == create_new_node(M, Head(old).label)
         IN  CopyNodes(c.m, append_node(graph, c.node), Tail(old))

\* Lines 1104-1133: for every 1 of the matrix, row i and column j, a new edge i -> j
\* that takes its weight and label from the edge found by walking at most j cells
\* down the old node's list
RECURSIVE CopyEdges(_, _, _, _)
CopyEdges(M, graph, old_graph, ones) ==
    IF ones = <<>> THEN [ m |-> M, graph |-> graph ]
    ELSE LET i    == Head(ones)[1]
             j    == Head(ones)[2]
             es   == EdgesOf(M.heap, old_graph[i].edges)
             ptr4 == es[IF j < Len(es) THEN j ELSE Len(es)]
             c    == create_new_edge(M, ptr4.weight, ptr4.label,
                                     << graph[i].id, graph[j].id >>)
             a    == append_edge(c.m, graph[i].edges, c.edge)
         IN  CopyEdges(a.m, [ graph EXCEPT ![i].edges = a.edges ], old_graph, Tail(ones))

\* Only the nodes are replicated
create_graph_copy_NodesOnly(M, old_graph) == CopyNodes(M, <<>>, old_graph)

create_graph_copy(M, old_graph) ==
    LET old_mat == create_graph_matrix(M.heap, old_graph)
        dim     == graph_dim(old_graph)
        ones    == Flatten([ i \in 1 .. dim |->
                      Flatten([ j \in 1 .. dim |->
                         IF old_mat[i][j] = 1 THEN << << i, j >> >> ELSE <<>> ]) ])
        nodes   == CopyNodes(M, <<>>, old_graph)
    IN  CopyEdges(nodes.m, nodes.graph, old_graph, ones)

\* The second graph's nodes come first
disjoint_graph_union_Swapped(first_graph, second_graph) == second_graph \o first_graph

\* Every node struct is copied by value: the union's nodes point to the same edge cells
disjoint_graph_union(first_graph, second_graph) == first_graph \o second_graph

\* append_node when malloc may return NULL: the else branch of line 1845 prints a message
\* and the graph is returned as it was
append_node_malloc(graph, node, ok) == IF ok THEN append_node(graph, node) ELSE graph

\* append_edge when malloc may return NULL: the else branch of line 2027
append_edge_malloc(M, edges, edge, ok) ==
    IF ok THEN append_edge(M, edges, edge) ELSE [ m |-> M, edges |-> edges ]

\* The two loops of disjoint_graph_union, mallocs[i] telling whether the i-th malloc succeeds
RECURSIVE AppendNodes(_, _, _)
AppendNodes(union_graph, nodes, mallocs) ==
    IF nodes = <<>> THEN union_graph
    ELSE AppendNodes(append_node_malloc(union_graph, Head(nodes), Head(mallocs)),
                     Tail(nodes), Tail(mallocs))

disjoint_graph_union_malloc(first_graph, second_graph, mallocs) ==
    AppendNodes(<<>>, first_graph \o second_graph, mallocs)

\* Lines 2618-2631: one copy of graph2 per node of graph1, its node structs appended by
\* value to the product
RECURSIVE MakeLayers(_, _, _, _, _)
MakeLayers(M, second_graph, dim1, layers, cartesian) ==
    IF Len(layers) = dim1 THEN [ m |-> M, layers |-> layers, cartesian |-> cartesian ]
    ELSE LET copy == create_graph_copy(M, second_graph)
         IN  MakeLayers(copy.m, second_graph, dim1, Append(layers, copy.graph),
                        cartesian \o copy.graph)

\* Lines 2655-2687: the edge from the i-th node of layer j to the i-th node of layer k
\* is appended to the list of the layer copy's node
RECURSIVE CrossEdges(_, _, _, _)
CrossEdges(M, layers, node_ids, work) ==
    IF work = <<>> THEN [ m |-> M, layers |-> layers ]
    ELSE LET i == Head(work)[1]
             j == Head(work)[2]
             k == FirstIndex(node_ids, LAMBDA id : id = Head(work)[3])
         IN  IF k = 0 THEN CrossEdges(M, layers, node_ids, Tail(work))
             ELSE LET c == create_new_edge(M, DEFAULT_WEIGHT_CARTESIAN_PRODUCT,
                                           DEFAULT_LABEL_CARTESIAN_PRODUCT,
                                           << layers[j][i].id, layers[k][i].id >>)
                      a == append_edge(c.m, layers[j][i].edges, c.edge)
                  IN  CrossEdges(a.m, [ layers EXCEPT ![j][i].edges = a.edges ],
                                 node_ids, Tail(work))

cartesian_graph_product(M, first_graph, second_graph) ==
    IF first_graph # <<>> /\ second_graph # <<>>
    THEN LET dim1 == graph_dim(first_graph)
             dim2 == graph_dim(second_graph)
             made == MakeLayers(M, second_graph, dim1, <<>>, <<>>)
             work == Flatten([ i \in 1 .. dim2 |->
                        Flatten([ j \in 1 .. dim1 |->
                           [ e \in DOMAIN EdgesOf(M.heap, first_graph[j].edges) |->
                               << i, j, EdgesOf(M.heap, first_graph[j].edges)[e].endpoint_ids[2] >> ] ]) ])
             done == CrossEdges(made.m, made.layers,
                                [ j \in 1 .. dim1 |-> first_graph[j].id ], work)
         IN  [ m |-> done.m, graph |-> made.cartesian ]
    ELSE [ m |-> M, graph |-> <<>> ]

\* Line 2762: union_graph = vertex_contraction(union_graph, sink_1, sink_2), on what the
\* contraction of the sources left
contract_sinks(sources, sink_1, sink_2) ==
    vertex_contraction(sources.m, sources.graph, sink_1, sink_2)

\* Only the sources are contracted
parallel_graph_composition_SourcesOnly(M, first_graph, second_graph, source_1, sink_1, source_2, sink_2) ==
    IF /\ find_node(first_graph, source_1) # NULL
       /\ find_node(first_graph, sink_1) # NULL
       /\ find_node(second_graph, source_2) # NULL
       /\ find_node(second_graph, sink_2) # NULL
    THEN vertex_contraction(M, disjoint_graph_union(first_graph, second_graph),
                            source_1, source_2)
    ELSE [ m |-> M, graph |-> <<>> ]

\* The second sink is not looked up
parallel_graph_composition_UncheckedSink(M, first_graph, second_graph, source_1, sink_1, source_2, sink_2) ==
    IF /\ find_node(first_graph, source_1) # NULL
       /\ find_node(first_graph, sink_1) # NULL
       /\ find_node(second_graph, source_2) # NULL
    THEN The({ contract_sinks(sources, sink_1, sink_2) :
                 sources \in { vertex_contraction(M, disjoint_graph_union(first_graph,
                                                                          second_graph),
                                                  source_1, source_2) } })
    ELSE [ m |-> M, graph |-> <<>> ]

parallel_graph_composition(M, first_graph, second_graph, source_1, sink_1, source_2, sink_2) ==
    IF /\ find_node(first_graph, source_1) # NULL
       /\ find_node(first_graph, sink_1) # NULL
       /\ find_node(second_graph, source_2) # NULL
       /\ find_node(second_graph, sink_2) # NULL
    THEN The({ contract_sinks(sources, sink_1, sink_2) :
                 sources \in { vertex_contraction(M, disjoint_graph_union(first_graph,
                                                                          second_graph),
                                                  source_1, source_2) } })
    ELSE [ m |-> M, graph |-> <<>> ]

series_graph_composition(M, first_graph, second_graph, source_id, sink_id) ==
    LET left_node  == get_node_from_id(first_graph, source_id)
        right_node == get_node_from_id(second_graph, sink_id)
    IN  IF left_node # NULL /\ right_node # NULL
        THEN LET union_graph == disjoint_graph_union(first_graph, second_graph)
                 c1 == create_new_edge(M, SERIES_EDGE_DEFAULT_WEIGHT, SERIES_EDGE_DEFAULT_LABEL,
                                       << first_graph[left_node].id, second_graph[right_node].id >>)
                 a1 == append_edge(c1.m, first_graph[left_node].edges, c1.edge)
                 c2 == create_new_edge(a1.m, SERIES_EDGE_DEFAULT_WEIGHT, SERIES_EDGE_DEFAULT_LABEL,
                                       << second_graph[right_node].id, first_graph[left_node].id >>)
                 a2 == append_edge(c2.m, second_graph[right_node].edges, c2.edge)
             IN  [ m |-> a2.m,
                   graph1 |-> [ first_graph EXCEPT ![left_node].edges = a1.edges ],
                   graph2 |-> [ second_graph EXCEPT ![right_node].edges = a2.edges ],
                   union_graph |-> union_graph ]
        ELSE [ m |-> M, graph1 |-> first_graph, graph2 |-> second_graph, union_graph |-> <<>> ]

\* series_graph_composition on two resolving ids when the malloc of either append_edge may
\* return NULL (the mallocs of the union succeed)
series_graph_composition_malloc(M, first_graph, second_graph, source_id, sink_id, ok1, ok2) ==
    LET left_node  == get_node_from_id(first_graph, source_id)
        right_node == get_node_from_id(second_graph, sink_id)
        c1 == create_new_edge(M, SERIES_EDGE_DEFAULT_WEIGHT, SERIES_EDGE_DEFAULT_LABEL,
                              << first_graph[left_node].id, second_graph[right_node].id >>)
        a1 == append_edge_malloc(c1.m, first_graph[left_node].edges, c1.edge, ok1)
        c2 == create_new_edge(a1.m, SERIES_EDGE_DEFAULT_WEIGHT, SERIES_EDGE_DEFAULT_LABEL,
                              << second_graph[right_node].id, first_graph[left_node].id >>)
        a2 == append_edge_malloc(c2.m, second_graph[right_node].edges, c2.edge, ok2)
    IN  [ m |-> a2.m,
          graph1 |-> [ first_graph EXCEPT ![left_node].edges = a1.edges ],
          graph2 |-> [ second_graph EXCEPT ![right_node].edges = a2.edges ],
          union_graph |-> disjoint_graph_union(first_graph, second_graph) ]

\* change_edge_label: the walk advances graph->node.edges itself, so every node visited
\* keeps only the cells from the one it stopped at; the edge found gets the new label
RECURSIVE change_edge_label(_, _, _, _, _)
change_edge_label(M, graph, i, edge_id, new_label) ==
    IF i > Len(graph) THEN [ m |-> M, graph |-> graph ]
    ELSE LET cs == ListCells(M.heap, graph[i].edges)
             k  == IF \E x \in DOMAIN cs : M.heap[cs[x]].edge.id = edge_id
                   THEN CHOOSE x \in DOMAIN cs :
                           /\ M.heap[cs[x]].edge.id = edge_id
                           /\ \A y \in 1 .. x - 1 : M.heap[cs[y]].edge.id # edge_id
                   ELSE 0
         IN  IF k # 0
             THEN [ m |-> [ M EXCEPT !.heap[cs[k]].edge.label = new_label ],
                    graph |-> [ graph EXCEPT ![i].edges = cs[k] ] ]
             ELSE change_edge_label(M, [ graph EXCEPT ![i].edges = NULL ], i + 1,
                                    edge_id, new_label)

-----------------------------------------------------------------------------
(* The state machine: what the caller holds, and the steps it takes *)

NoOp == [ op |-> "none" ]

Init ==
    /\ global_node_id = 1
    /\ revoked_node_ids = <<>>
    /\ global_edge_id = 1
    /\ revoked_edge_ids = <<>>
    /\ heap = <<>>
    /\ graph1 = <<>>
    /\ graph2 = <<>>
    /\ result = <<>>
    /\ trace = EmptyTrace
    /\ last = NoOp
    /\ phase = "build"

Graph(g) == IF g = 1 THEN graph1 ELSE graph2

WithGraph(g, new) == IF g = 1 THEN << new, graph2 >> ELSE << graph1, new >>

\* What the caller holds after a step
Commit(M, g1, g2, res) ==
    /\ heap' = M.heap
    /\ global_node_id' = M.global_node_id
    /\ revoked_node_ids' = M.revoked_node_ids
    /\ global_edge_id' = M.global_edge_id
    /\ revoked_edge_ids' = M.revoked_edge_ids
    /\ trace' = M.trace
    /\ graph1' = g1
    /\ graph2' = g2
    /\ result' = res

Revoked == Len(trace.node_in) + Len(trace.edge_in)

\* graph = append_node(graph, create_new_node(label))
NewNode(g, label) ==
    /\ phase = "build"
    /\ Len(Graph(g)) < MaxNodes
    /\ LET c == create_new_node(Memory, label)
           w == WithGraph(g, append_node(Graph(g), c.node))
       IN  Commit(c.m, w[1], w[2], result)
    /\ UNCHANGED << last, phase >>

\* node.edges = append_edge(node.edges, create_new_edge(weight, label, {node.id, dest}))
NewEdge(g, i, dest, in) ==
    /\ phase = "build"
    /\ Len(heap) < MaxCells
    /\ i \in DOMAIN Graph(g)
    /\ LET n == Graph(g)[i]
           c == create_new_edge(Memory, in.weight, in.label, << n.id, dest >>)
           a == append_edge(c.m, n.edges, c.edge)
           w == WithGraph(g, [ Graph(g) EXCEPT ![i].edges = a.edges ])
       IN  Commit(a.m, w[1], w[2], result)
    /\ UNCHANGED << last, phase >>

\* graph = delete_node(graph, id)
DelNode(g, id) ==
    /\ phase = "build"
    /\ Revoked < MaxRevoked
    /\ LET d == delete_node(Memory, Graph(g), id)
           w == WithGraph(g, d.graph)
       IN  Commit(d.m, w[1], w[2], result)
    /\ UNCHANGED << last, phase >>

\* node.edges = delete_edge(node.edges, id)
DelEdge(g, i, id) ==
    /\ phase = "build"
    /\ Revoked < MaxRevoked
    /\ i \in DOMAIN Graph(g)
    /\ LET d == delete_edge(Memory, Graph(g)[i].edges, id)
           w == WithGraph(g, [ Graph(g) EXCEPT ![i].edges = d.edges ])
       IN  Commit(d.m, w[1], w[2], result)
    /\ UNCHANGED << last, phase >>

\* node.edges = delete_edge_list(node.edges)
DelEdgeList(g, i) ==
    /\ phase = "build"
    /\ Revoked < MaxRevoked
    /\ i \in DOMAIN Graph(g)
    /\ LET d == delete_edge_list(Memory, Graph(g)[i].edges)
           w == WithGraph(g, [ Graph(g) EXCEPT ![i].edges = d.edges ])
       IN  Commit(d.m, w[1], w[2], result)
    /\ UNCHANGED << last, phase >>

\* graph = delete_graph(graph)
DelGraph(g) ==
    /\ phase = "build"
    /\ Revoked < MaxRevoked
    /\ Graph(g) # <<>>
    /\ LET d == delete_graph(Memory, Graph(g))
           w == WithGraph(g, d.graph)
       IN  Commit(d.m, w[1], w[2], result)
    /\ UNCHANGED << last, phase >>

\* The caller builds and takes apart one graph, one step at a time
Build ==
    \/ \E label \in NodeLabels : NewNode(1, label)
    \/ \E i \in 1 .. MaxNodes, dest \in 1 .. (global_node_id - 1), in \in EdgeInputs :
          NewEdge(1, i, dest, in)
    \/ \E id \in 1 .. (global_node_id - 1) : DelNode(1, id)
    \/ \E i \in 1 .. MaxNodes, id \in 1 .. (global_edge_id - 1) : DelEdge(1, i, id)
    \/ \E i \in 1 .. MaxNodes : DelEdgeList(1, i)
    \/ DelGraph(1)

-----------------------------------------------------------------------------
(* Graph descriptions: n nodes named in order, and arcs << owner, dest >> listed *)
(* line by line (owners ascending).  The k-th edge of the file has weight k.     *)

Files(maxN, maxE) ==
    { [ n |-> n, arcs |-> a ] :
        n \in 0 .. maxN,
        a \in { b \in UNION { [ 1 .. m -> (1 .. maxN) \X (1 .. maxN) ] : m \in 0 .. maxE } :
                  \A i \in DOMAIN b : \A j \in DOMAIN b : i < j => b[i][1] <= b[j][1] } }

WellFormedFile(f) ==
    \A k \in DOMAIN f.arcs : f.arcs[k][1] <= f.n /\ f.arcs[k][2] <= f.n

LinesOf(f) ==
    [ i \in 1 .. f.n |->
        LET mine == { k \in DOMAIN f.arcs : f.arcs[k][1] = i }
            lo   == IF mine = {} THEN 1 ELSE CHOOSE k \in mine : \A x \in mine : k <= x
        IN  [ label |-> NodeNames[i],
              edges |-> [ j \in 1 .. Cardinality(mine) |->
                            LET k == lo + j - 1
                            IN  [ dest   |-> NodeNames[f.arcs[k][2]],
                                  label  |-> IF k % 2 = 1 THEN "edge1" ELSE "edge2",
                                  weight |-> k ] ] ] ]

FreshMemory == [ heap |-> <<>>, global_node_id |-> 1, revoked_node_ids |-> <<>>,
                 global_edge_id |-> 1, revoked_edge_ids |-> <<>>, trace |-> EmptyTrace ]

\* A graph the process may have loaded and destroyed before: a directed cycle
PriorFile ==
    LET n == LoadNodes + 2
    IN  [ n |-> n, arcs |-> [ i \in 1 .. n |-> << i, (i % n) + 1 >> ] ]

\* The memory the process starts from: fresh, or after delete_graph(load_graph(prior))
StartMemory(prior) ==
    IF prior
    THEN LET l == load_graph(FreshMemory, LinesOf(PriorFile))
             d == delete_graph(l.m, l.graph)
         IN  d.m
    ELSE FreshMemory

InitMemory(M) ==
    /\ heap = M.heap
    /\ global_node_id = M.global_node_id
    /\ revoked_node_ids = M.revoked_node_ids
    /\ global_edge_id = M.global_edge_id
    /\ revoked_edge_ids = M.revoked_edge_ids
    /\ trace = M.trace

\* The process has loaded graph1 from a description, as main() does
InitOne ==
    \E prior \in BOOLEAN, f \in Files(LoadNodes, LoadArcs) :
        /\ WellFormedFile(f)
        /\ \E l \in { load_graph(StartMemory(prior), LinesOf(f)) } :
              InitMemory(l.m) /\ graph1 = l.graph
        /\ graph2 = <<>>
        /\ result = <<>>
        /\ last = NoOp
        /\ phase = "build"

\* The process has loaded graph1, then graph2, as main() does
InitTwo ==
    \E prior \in BOOLEAN, f1 \in Files(PairNodes, PairArcs), f2 \in Files(PairNodes, PairArcs) :
        /\ WellFormedFile(f1)
        /\ WellFormedFile(f2)
        /\ \E l1 \in { load_graph(StartMemory(prior), LinesOf(f1)) } :
           \E l2 \in { load_graph(l1.m, LinesOf(f2)) } :
              InitMemory(l2.m) /\ graph1 = l1.graph /\ graph2 = l2.graph
        /\ result = <<>>
        /\ last = NoOp
        /\ phase = "build"

\* The process is stopped inside the call: nothing it holds is observed again
Trapped ==
    /\ phase' = "crashed"
    /\ UNCHANGED << global_node_id, revoked_node_ids, global_edge_id, revoked_edge_ids,
                    heap, graph1, graph2, result, trace >>

\* graph1 = vertex_contraction(graph1, first_node_id, second_node_id)
VertexContraction(first_node_id, second_node_id, null_read) ==
    /\ phase = "build"
    /\ first_node_id # second_node_id
    /\ IF /\ null_read = "trap"
          /\ MissesNode(graph1, first_node_id) \/ MissesNode(graph1, second_node_id)
       THEN Trapped
       ELSE /\ \E r \in { vertex_contraction(Memory, graph1, first_node_id, second_node_id) } :
                   Commit(r.m, r.graph, graph2, result)
            /\ phase' = "done"
    /\ last' = [ op |-> "vertex_contraction", first |-> first_node_id,
                 second |-> second_node_id, graph1 |-> graph1, graph2 |-> graph2,
                 m |-> Memory ]

NextContraction ==
    \E a \in 1 .. global_node_id, b \in 1 .. global_node_id, null_read \in NullReads :
        VertexContraction(a, b, null_read)

SpecContraction == InitOne /\ [][NextContraction]_vars

MaxCalls == 2

\* graph1 = complement_graph(graph1); last.origin is the graph before the first call
Complement(freed_read) ==
    /\ phase # "crashed"
    /\ IF last.op = "complement_graph" THEN last.calls < MaxCalls ELSE TRUE
    /\ \E r \in { complement_graph(Memory, graph1, freed_read) } :
           IF r.trap
           THEN /\ phase' = "crashed"
                /\ UNCHANGED << global_node_id, revoked_node_ids, global_edge_id,
                                revoked_edge_ids, heap, graph1, graph2, result, trace >>
           ELSE /\ phase' = "done"
                /\ Commit(r.m, r.graph, graph2, result)
    /\ last' = [ op |-> "complement_graph", graph1 |-> graph1, m |-> Memory,
                 calls  |-> IF last.op = "complement_graph" THEN last.calls + 1 ELSE 1,
                 origin |-> IF last.op = "complement_graph" THEN last.origin
                            ELSE [ graph |-> graph1, heap |-> heap ] ]

NextComplement == \E freed_read \in FreedReads : Complement(freed_read)

SpecComplement == InitOne /\ [][NextComplement]_vars

\* result = series_graph_composition(graph1, graph2, source_id, sink_id)
Series(source_id, sink_id, null_read) ==
    /\ phase = "build"
    /\ IF /\ null_read = "trap"
          /\ MissesNode(graph1, source_id) \/ MissesNode(graph2, sink_id)
       THEN Trapped
       ELSE /\ \E r \in { series_graph_composition(Memory, graph1, graph2,
                                                     source_id, sink_id) } :
                   Commit(r.m, r.graph1, r.graph2, r.union_graph)
            /\ phase' = "done"
    /\ last' = [ op |-> "series_graph_composition", source_id |-> source_id,
                 sink_id |-> sink_id, graph1 |-> graph1, graph2 |-> graph2, m |-> Memory ]

NextSeries ==
    \E a \in 1 .. global_node_id - 1, b \in 1 .. global_node_id - 1,
       null_read \in NullReads : Series(a, b, null_read)

SpecSeries == InitTwo /\ [][NextSeries]_vars

\* result = cartesian_graph_product(graph1, graph2)
Cartesian ==
    /\ phase = "build"
    /\ \E r \in { cartesian_graph_product(Memory, graph1, graph2) } :
           Commit(r.m, graph1, graph2, r.graph)
    /\ last' = [ op |-> "cartesian_graph_product", graph1 |-> graph1, graph2 |-> graph2,
                 m |-> Memory ]
    /\ phase' = "done"

NextCartesian == Cartesian

SpecCartesian == InitTwo /\ [][NextCartesian]_vars

\* result = disjoint_graph_union(graph1, graph2)
Union ==
    /\ phase = "build"
    /\ \E r \in { disjoint_graph_union(graph1, graph2) } :
           Commit(Memory, graph1, graph2, r)
    /\ last' = [ op |-> "disjoint_graph_union", graph1 |-> graph1, graph2 |-> graph2,
                 m |-> Memory ]
    /\ phase' = "done"

NextUnion == Union

SpecUnion == InitTwo /\ [][NextUnion]_vars

\* The ids a caller may pass for a graph: those of its nodes, and one no node carries
IdChoices(graph) == Range([ i \in DOMAIN graph |-> graph[i].id ]) \cup { global_node_id }

\* result = parallel_graph_composition(graph1, graph2, source_1, sink_1, source_2, sink_2)
Parallel(source_1, sink_1, source_2, sink_2) ==
    /\ phase = "build"
    /\ \E r \in { parallel_graph_composition(Memory, graph1, graph2,
                                              source_1, sink_1, source_2, sink_2) } :
           Commit(r.m, graph1, graph2, r.graph)
    /\ last' = [ op |-> "parallel_graph_composition", source_1 |-> source_1,
                 sink_1 |-> sink_1, source_2 |-> source_2, sink_2 |-> sink_2,
                 graph1 |-> graph1, graph2 |-> graph2, m |-> Memory ]
    /\ phase' = "done"

NextParallel ==
    \E s1 \in IdChoices(graph1), k1 \in IdChoices(graph1),
       s2 \in IdChoices(graph2), k2 \in IdChoices(graph2) : Parallel(s1, k1, s2, k2)

SpecParallel == InitTwo /\ [][NextParallel]_vars

NextComposition == NextParallel \/ NextSeries

SpecComposition == InitTwo /\ [][NextComposition]_vars

\* graph1 = delete_graph(graph1)
DeleteGraph ==
    /\ phase = "build"
    /\ \E r \in { delete_graph(Memory, graph1) } : Commit(r.m, r.graph, graph2, result)
    /\ last' = [ op |-> "delete_graph", graph1 |-> graph1, graph2 |-> graph2, m |-> Memory ]
    /\ phase' = "done"

NextDeleteGraph == DeleteGraph

SpecDeleteGraph == InitOne /\ [][NextDeleteGraph]_vars

\* exists = exists_node_from_id(node_id), asked of the graph under construction
ExistsNode(node_id) ==
    /\ phase = "build"
    /\ last' = [ op |-> "exists_node_from_id", id |-> node_id,
                 exists |-> exists_node_from_id(Memory, node_id) ]
    /\ phase' = "done"
    /\ UNCHANGED << global_node_id, revoked_node_ids, global_edge_id, revoked_edge_ids,
                    heap, graph1, graph2, result, trace >>

\* exists = exists_edge_from_id(edge_id), asked of the graph under construction
ExistsEdge(edge_id) ==
    /\ phase = "build"
    /\ last' = [ op |-> "exists_edge_from_id", id |-> edge_id,
                 exists |-> exists_edge_from_id(Memory, edge_id) ]
    /\ phase' = "done"
    /\ UNCHANGED << global_node_id, revoked_node_ids, global_edge_id, revoked_edge_ids,
                    heap, graph1, graph2, result, trace >>

NextExists ==
    \/ Build
    \/ \E node_id \in 1 .. global_node_id + 1 : ExistsNode(node_id)
    \/ \E edge_id \in 1 .. global_edge_id + 1 : ExistsEdge(edge_id)

SpecExists == Init /\ [][NextExists]_vars

\* set_node_id hands out the counter and then increments it: the highest id issued so far
HighestNodeId == global_node_id - 1

\* set_edge_id likewise
HighestEdgeId == global_edge_id - 1

\* mat = create_graph_matrix(graph1), with the guard of line 1499
Matrix ==
    /\ phase = "build"
    /\ graph1 # <<>>
    /\ \E mat \in { create_graph_matrix(heap, graph1) } :
          last' = [ op |-> "create_graph_matrix", mat |-> mat,
                    graph1 |-> graph1, graph2 |-> graph2, m |-> Memory ]
    /\ phase' = "done"
    /\ UNCHANGED << global_node_id, revoked_node_ids, global_edge_id, revoked_edge_ids,
                    heap, graph1, graph2, result, trace >>

NextMatrix == Matrix

SpecMatrix == InitOne /\ [][NextMatrix]_vars

\* Cells one call of vertex_contraction may allocate in the model: more than any edge list holds
MaxAppended == LoadArcs + 2

\* vertex_contraction, lines 2337-2374: both lookups succeed, the mutual edges are removed,
\* ptr = donor_node->edges and ptr2 = merge_node->edges
ContractionEnters(first_node_id, second_node_id) ==
    /\ phase = "build"
    /\ ~MissesNode(graph1, first_node_id)
    /\ ~MissesNode(graph1, second_node_id)
    /\ \E u1 \in { Unlink(Memory, graph1, first_node_id, second_node_id) } :
       \E u2 \in { Unlink(u1.m, u1.graph, second_node_id, first_node_id) } :
          /\ Commit(u2.m, u2.graph, graph2, result)
          /\ last' = [ op |-> "vertex_contraction", first |-> first_node_id,
                       second |-> second_node_id, graph1 |-> graph1, graph2 |-> graph2,
                       m |-> Memory,
                       ptr |-> u2.graph[get_node_from_id(u2.graph, second_node_id)].edges,
                       ptr2 |-> u2.graph[get_node_from_id(u2.graph, first_node_id)].edges ]
    /\ phase' = "append"

\* One turn of the loop of lines 2376-2380: ptr2 = append_edge(ptr2, ptr->edge), then
\* ptr = ptr->next, read after the append
ContractionAppends ==
    /\ phase = "append"
    /\ last.ptr # NULL
    /\ Len(heap) - Len(last.m.heap) < MaxAppended
    /\ \E a \in { append_edge(Memory, last.ptr2, heap[last.ptr].edge) } :
          /\ Commit(a.m, graph1, graph2, result)
          /\ last' = [ last EXCEPT !.ptr2 = a.edges, !.ptr = a.m.heap[last.ptr].next ]
    /\ UNCHANGED phase

\* Lines 2382-2438 once ptr is NULL: the rebasing, the redirection, delete_node and the return
ContractionReturns ==
    /\ phase = "append"
    /\ last.ptr = NULL
    /\ \E h1 \in { Rebase(heap, last.ptr2, last.first) } :
       \E h2 \in { Redirect(h1, graph1, last.first, last.second) } :
       \E r \in { delete_node([ Memory EXCEPT !.heap = h2 ], graph1, last.second) } :
          Commit(r.m, r.graph, graph2, result)
    /\ phase' = "done"
    /\ UNCHANGED last

NextTermination ==
    \/ \E a \in 1 .. global_node_id - 1, b \in 1 .. global_node_id - 1 : ContractionEnters(a, b)
    \/ ContractionAppends
    \/ ContractionReturns

\* The function runs on once called: every enabled step of it is eventually taken
SpecTermination ==
    /\ InitOne
    /\ [][NextTermination]_vars
    /\ WF_vars(ContractionAppends)
    /\ WF_vars(ContractionReturns)

\* graph1 = push_node(graph1, create_new_node(label))
PushNode(label) ==
    /\ phase = "build"
    /\ \E c \in { create_new_node(Memory, label) } :
          /\ Commit(c.m, push_node(graph1, c.node), graph2, result)
          /\ last' = [ op |-> "push_node", node |-> c.node, graph1 |-> graph1,
                       graph2 |-> graph2, m |-> Memory ]
    /\ phase' = "done"

\* node.edges = push_edge(node.edges, create_new_edge(weight, label, {node.id, dest}))
PushEdge(i, dest, in) ==
    /\ phase = "build"
    /\ i \in DOMAIN graph1
    /\ \E c \in { create_new_edge(Memory, in.weight, in.label, << graph1[i].id, dest >>) } :
       \E p \in { push_edge(c.m, graph1[i].edges, c.edge) } :
          /\ Commit(p.m, [ graph1 EXCEPT ![i].edges = p.edges ], graph2, result)
          /\ last' = [ op |-> "push_edge", edge |-> c.edge, owner |-> i, graph1 |-> graph1,
                       graph2 |-> graph2, m |-> Memory ]
    /\ phase' = "done"

NextPush ==
    \/ Build
    \/ \E label \in NodeLabels : PushNode(label)
    \/ \E i \in 1 .. MaxNodes, dest \in 1 .. (global_node_id - 1), in \in EdgeInputs :
          PushEdge(i, dest, in)

SpecPush == Init /\ [][NextPush]_vars

\* node.edges = delete_edge(node.edges, id), for any id up to one past the counter
DeleteEdge(i, id) ==
    /\ phase = "build"
    /\ i \in DOMAIN graph1
    /\ \E d \in { delete_edge(Memory, graph1[i].edges, id) } :
          Commit(d.m, [ graph1 EXCEPT ![i].edges = d.edges ], graph2, result)
    /\ last' = [ op |-> "delete_edge", owner |-> i, id |-> id, graph1 |-> graph1,
                 graph2 |-> graph2, m |-> Memory ]
    /\ phase' = "done"

NextDeleteEdge ==
    \/ Build
    \/ \E i \in 1 .. MaxNodes, id \in 1 .. (global_edge_id + 1) : DeleteEdge(i, id)

SpecDeleteEdge == Init /\ [][NextDeleteEdge]_vars

\* graph1 = delete_node(graph1, id), for any id up to the counter
DeleteNode(id) ==
    /\ phase = "build"
    /\ \E d \in { delete_node(Memory, graph1, id) } : Commit(d.m, d.graph, graph2, result)
    /\ last' = [ op |-> "delete_node", id |-> id, graph1 |-> graph1, graph2 |-> graph2,
                 m |-> Memory ]
    /\ phase' = "done"

NextDeleteNode == \E id \in 1 .. global_node_id : DeleteNode(id)

SpecDeleteNode == InitOne /\ [][NextDeleteNode]_vars

\* result = disjoint_graph_union(graph1, graph2) with at least one failing malloc
UnionExhausted(mallocs) ==
    /\ phase = "build"
    /\ FALSE \in Range(mallocs)
    /\ \E r \in { disjoint_graph_union_malloc(graph1, graph2, mallocs) } :
          Commit(Memory, graph1, graph2, r)
    /\ last' = [ op |-> "disjoint_graph_union", mallocs |-> mallocs, graph1 |-> graph1,
                 graph2 |-> graph2, m |-> Memory ]
    /\ phase' = "done"

\* result = series_graph_composition(graph1, graph2, source_id, sink_id) with at least one
\* failing malloc in append_edge
SeriesExhausted(source_id, sink_id, ok1, ok2) ==
    /\ phase = "build"
    /\ ~MissesNode(graph1, source_id)
    /\ ~MissesNode(graph2, sink_id)
    /\ ~(ok1 /\ ok2)
    /\ \E r \in { series_graph_composition_malloc(Memory, graph1, graph2, source_id, sink_id,
                                                   ok1, ok2) } :
          Commit(r.m, r.graph1, r.graph2, r.union_graph)
    /\ last' = [ op |-> "series_graph_composition", mallocs |-> << ok1, ok2 >>,
                 graph1 |-> graph1, graph2 |-> graph2, m |-> Memory ]
    /\ phase' = "done"

NextExhaustion ==
    \/ \E mallocs \in [ 1 .. (Len(graph1) + Len(graph2)) -> BOOLEAN ] : UnionExhausted(mallocs)
    \/ \E source_id \in 1 .. global_node_id - 1, sink_id \in 1 .. global_node_id - 1,
          ok1 \in BOOLEAN, ok2 \in BOOLEAN : SeriesExhausted(source_id, sink_id, ok1, ok2)

SpecExhaustion == InitTwo /\ [][NextExhaustion]_vars

\* result = create_graph_copy(graph1)
Copy ==
    /\ phase = "build"
    /\ \E r \in { create_graph_copy(Memory, graph1) } : Commit(r.m, graph1, graph2, r.graph)
    /\ last' = [ op |-> "create_graph_copy", graph1 |-> graph1, graph2 |-> graph2,
                 m |-> Memory ]
    /\ phase' = "done"

NextCopy == Copy

SpecCopy == InitOne /\ [][NextCopy]_vars

\* change_edge_label(graph1, edge_id, new_label)
ChangeEdgeLabel(edge_id, new_label) ==
    /\ phase = "build"
    /\ \E r \in { change_edge_label(Memory, graph1, 1, edge_id, new_label) } :
          Commit(r.m, r.graph, graph2, result)
    /\ last' = [ op |-> "change_edge_label", id |-> edge_id, label |-> new_label,
                 graph1 |-> graph1, graph2 |-> graph2, m |-> Memory ]
    /\ phase' = "done"

NextRelabel ==
    \E edge_id \in 1 .. global_edge_id, new_label \in { "edge1", "edge9" } :
        ChangeEdgeLabel(edge_id, new_label)

SpecRelabel == InitOne /\ [][NextRelabel]_vars

\* delete_graph(graph1); delete_graph(graph2), after the operation that used them (the
\* sequence of main, lines 267-292)
DestroyInputs ==
    /\ phase = "done"
    /\ last.op \in { "disjoint_graph_union", "series_graph_composition" }
    /\ \E d1 \in { delete_graph(Memory, graph1) } :
       \E d2 \in { delete_graph(d1.m, graph2) } :
          Commit(d2.m, d1.graph, d2.graph, result)
    /\ phase' = "destroyed"
    /\ UNCHANGED last

\* graph1 = append_node(graph1, create_new_node(label)), once the inputs are destroyed
ConstructAfter(label) ==
    /\ phase = "destroyed"
    /\ \E c \in { create_new_node(Memory, label) } :
          Commit(c.m, append_node(graph1, c.node), graph2, result)
    /\ phase' = "rebuilt"
    /\ UNCHANGED last

NextDestroy ==
    \/ Union
    \/ NextSeries
    \/ DestroyInputs
    \/ \E label \in NodeLabels : ConstructAfter(label)

SpecDestroy == InitTwo /\ [][NextDestroy]_vars

\* Any one operation of the algebra on the two loaded graphs (complement_graph possibly
\* applied again to what an operation left in graph1)
NextAlgebra ==
    \/ NextContraction
    \/ NextComplement
    \/ Union
    \/ Cartesian
    \/ NextParallel
    \/ NextSeries

SpecAlgebra == InitTwo /\ [][NextAlgebra]_vars

Next == Build

Spec == Init /\ [][Next]_vars


-----------------------------------------------------------------------------
(* What a graph holds *)

\* The edge structs a graph reaches, node by node, each in list order
GraphEdges(h, graph) == Flatten([ i \in DOMAIN graph |-> EdgesOf(h, graph[i].edges) ])

NodeIds(graph) == [ i \in DOMAIN graph |-> graph[i].id ]

EdgeIds(es) == [ i \in DOMAIN es |-> es[i].id ]

Distinct(s) == \A i \in DOMAIN s : \A j \in DOMAIN s : i # j => s[i] # s[j]

\* The edges of the node with this id
OutEdges(h, graph, id) == EdgesOf(h, graph[find_node(graph, id)].edges)

\* s without its first element satisfying Test
WithoutFirst(s, Test(_)) ==
    LET k == FirstIndex(s, Test) IN IF k = 0 THEN s ELSE RemoveAt(s, k)

-----------------------------------------------------------------------------
(* C1: identifier uniqueness under constructions, insertions and deletions *)

NextNodeId == IF revoked_node_ids # <<>> THEN Head(revoked_node_ids) ELSE global_node_id

NextEdgeId == IF revoked_edge_ids # <<>> THEN Head(revoked_edge_ids) ELSE global_edge_id

\* C1: after any sequence of create_new_node/create_new_edge, append_node/append_edge,
\* delete_node, delete_edge, delete_edge_list and delete_graph, no two live nodes share
\* a node id, no two live edges share an edge id, and the id a constructor hands out
\* next is held by no live node (edge).
C1_UniqueLiveIds ==
    /\ Distinct(NodeIds(graph1 \o graph2))
    /\ Distinct(EdgeIds(GraphEdges(heap, graph1 \o graph2)))
    /\ NextNodeId \notin Range(NodeIds(graph1 \o graph2))
    /\ NextEdgeId \notin Range(EdgeIds(GraphEdges(heap, graph1 \o graph2)))

\* Two live nodes and a live edge, one node and the edge carrying a recycled id
C1_Witness ==
    /\ Len(graph1) = 2
    /\ trace.node_out # <<>>
    /\ trace.edge_out # <<>>
    /\ \E i \in DOMAIN graph1 : graph1[i].id = trace.node_out[1]
    /\ \E e \in Range(GraphEdges(heap, graph1)) : e.id = trace.edge_out[1]

-----------------------------------------------------------------------------
(* C2: the recycle pools are first-in-first-out *)

FifoPools ==
    /\ trace.node_out \o revoked_node_ids = trace.node_in
    /\ trace.edge_out \o revoked_edge_ids = trace.edge_in

\* What one construction does to its namespace: id is the id it handed out
Allocates(id, pool, pool_after, counter, counter_after) ==
    IF pool # <<>>
    THEN id = Head(pool) /\ pool_after = Tail(pool) /\ counter_after = counter
    ELSE id = counter /\ pool_after = pool /\ counter_after = counter + 1

AllocationPolicy ==
    /\ Len(graph1') = Len(graph1) + 1 =>
          Allocates(graph1'[Len(graph1')].id, revoked_node_ids, revoked_node_ids',
                    global_node_id, global_node_id')
    /\ Len(heap') = Len(heap) + 1 =>
          Allocates(heap'[Len(heap')].edge.id, revoked_edge_ids, revoked_edge_ids',
                    global_edge_id, global_edge_id')

\* C2: a construction takes the oldest recycled id when the pool is not empty, leaving
\* the counter alone, and otherwise the counter value, advancing the counter by one;
\* so the ids handed out from a pool are, in order, the ids that were put into it
\* (delete N then create N returns the N ids in the order of their deletion).
C2_FifoRecycling == [](FifoPools) /\ [][AllocationPolicy]_vars

\* Two nodes deleted in descending id order and two nodes created from the pool
C2_Witness ==
    /\ Len(trace.node_out) = 2
    /\ trace.node_in = << 2, 1 >>
    /\ NodeIds(graph1) = << 2, 1 >>

-----------------------------------------------------------------------------
(* C3, C4: vertex contraction *)

Contracted ==
    /\ last.op = "vertex_contraction"
    /\ find_node(last.graph1, last.first) # 0
    /\ find_node(last.graph1, last.second) # 0

\* The ids of the edges the survivor should own: its own, then the donor's, without
\* the first keep->drop edge and the first drop->keep edge
ExpectedMerged ==
    LET h == last.m.heap
        k == WithoutFirst(OutEdges(h, last.graph1, last.first),
                          LAMBDA e : e.endpoint_ids[2] = last.second)
        d == WithoutFirst(OutEdges(h, last.graph1, last.second),
                          LAMBDA e : e.endpoint_ids[2] = last.first)
    IN  k \o d

\* C3: after vertex_contraction(graph, keep, drop) on two distinct existing nodes, the
\* outgoing edges of keep are exactly keep's and drop's original outgoing edges, minus
\* the first keep->drop and the first drop->keep edge, each with source keep; a
\* self-loop on drop has become a self-loop on keep.
C3_ContractionMergesEdges ==
    Contracted =>
        LET now == OutEdges(heap, graph1, last.first)
        IN  /\ Len(now) = Len(ExpectedMerged)
            /\ Range(EdgeIds(now)) = Range(EdgeIds(ExpectedMerged))
            /\ \A e \in Range(now) : e.endpoint_ids[1] = last.first
            /\ \A e \in Range(ExpectedMerged) :
                  e.endpoint_ids = << last.second, last.second >> =>
                     \E n \in Range(now) :
                        n.id = e.id /\ n.endpoint_ids = << last.first, last.first >>

\* C4: after a successful vertex_contraction(graph, keep, drop), keep # drop, the graph
\* has one node fewer, keep is present, drop is absent, drop's id has been appended to
\* the node recycle pool, and no edge of any node has drop's id as an endpoint.
C4_ContractionRemovesDrop ==
    Contracted =>
        /\ Len(graph1) = Len(last.graph1) - 1
        /\ find_node(graph1, last.first) # 0
        /\ find_node(graph1, last.second) = 0
        /\ revoked_node_ids = Append(last.m.revoked_node_ids, last.second)
        /\ \A e \in Range(GraphEdges(heap, graph1)) :
              e.endpoint_ids[1] # last.second /\ e.endpoint_ids[2] # last.second

\* A contraction where a third node, and the survivor too, had an edge into the donor,
\* and the pool was not empty before
C4_Witness ==
    /\ Contracted
    /\ last.m.revoked_node_ids # <<>>
    /\ \E i \in DOMAIN last.graph1 :
          /\ last.graph1[i].id \notin { last.first, last.second }
          /\ \E e \in Range(EdgesOf(last.m.heap, last.graph1[i].edges)) :
                e.endpoint_ids[2] = last.second
    /\ Len(SelectSeq(OutEdges(last.m.heap, last.graph1, last.first),
                     LAMBDA e : e.endpoint_ids[2] = last.second)) = 2

-----------------------------------------------------------------------------
(* C9, C10: complement *)

Simple(h, graph) ==
    \A i \in DOMAIN graph : Distinct([ k \in DOMAIN EdgesOf(h, graph[i].edges) |->
                                         EdgesOf(h, graph[i].edges)[k].endpoint_ids[2] ])

NoSelfLoops(h, graph) ==
    \A i \in DOMAIN graph : \A e \in Range(EdgesOf(h, graph[i].edges)) :
        e.endpoint_ids[2] # graph[i].id

NoDangling(h, graph) ==
    \A e \in Range(GraphEdges(h, graph)) : e.endpoint_ids[2] \in Range(NodeIds(graph))

Complemented == last.op = "complement_graph" /\ phase = "done"

\* C9: for a simple graph G without self-loops and without dangling destinations, the
\* adjacency matrix of complement_graph(complement_graph(G)) equals the matrix of G.
C9_ComplementTwice ==
    ( /\ Complemented
      /\ last.calls = 2
      /\ Simple(last.origin.heap, last.origin.graph)
      /\ NoSelfLoops(last.origin.heap, last.origin.graph)
      /\ NoDangling(last.origin.heap, last.origin.graph) )
    => create_graph_matrix(heap, graph1)
          = create_graph_matrix(last.origin.heap, last.origin.graph)

\* A simple, loop-free graph of three nodes with some edges, but not all, complemented twice
C9_Witness ==
    /\ Complemented
    /\ last.calls = 2
    /\ Len(last.origin.graph) = 3
    /\ Simple(last.origin.heap, last.origin.graph)
    /\ NoSelfLoops(last.origin.heap, last.origin.graph)
    /\ Len(GraphEdges(last.origin.heap, last.origin.graph)) = 3
    /\ \E i \in DOMAIN last.origin.graph : last.origin.graph[i].edges = NULL

\* The ids appended to the edge pool by the last call
ReturnedEdgeIds ==
    SubSeq(trace.edge_in, Len(last.m.trace.edge_in) + 1, Len(trace.edge_in))

\* C10: complement_graph(G) leaves the node list unchanged (ids, labels, order) and
\* replaces every node u's edges by exactly one edge (u,v) for each node v of G, u
\* included, for which u had no (u,v) edge, each labelled "complemented_edge" with
\* weight 0; the ids of the replaced edges and of the discarded template edges have
\* been returned to the edge recycle pool.
C10_Complement ==
    Complemented =>
        LET old(i) == EdgesOf(last.m.heap, last.graph1[i].edges)
            now(i) == EdgesOf(heap, graph1[i].edges)
            n      == Len(last.graph1)
        IN  /\ [ i \in DOMAIN graph1 |-> << graph1[i].id, graph1[i].label >> ]
                  = [ i \in DOMAIN last.graph1 |-> << last.graph1[i].id, last.graph1[i].label >> ]
            /\ \A i \in DOMAIN graph1 :
                  /\ \A e \in Range(now(i)) :
                        /\ e.endpoint_ids[1] = graph1[i].id
                        /\ e.endpoint_ids[2] \in Range(NodeIds(graph1))
                        /\ e.label = "complemented_edge"
                        /\ e.weight = 0
                  /\ \A j \in DOMAIN graph1 :
                        Cardinality({ k \in DOMAIN now(i) :
                                        now(i)[k].endpoint_ids[2] = graph1[j].id })
                           = IF \E o \in Range(old(i)) :
                                   o.endpoint_ids = << graph1[i].id, graph1[j].id >>
                             THEN 0 ELSE 1
            /\ \A o \in Range(GraphEdges(last.m.heap, last.graph1)) :
                  o.id \in Range(ReturnedEdgeIds)
            /\ Len(ReturnedEdgeIds)
                  = Len(GraphEdges(last.m.heap, last.graph1))
                       + (n * n - Len(GraphEdges(heap, graph1)))
            /\ FifoPools

\* Three nodes, one with a self-loop and a second edge, one without edges, and ids
\* waiting in the edge pool before the call
C10_Witness ==
    /\ Complemented
    /\ last.calls = 1
    /\ Len(last.graph1) = 3
    /\ last.m.revoked_edge_ids # <<>>
    /\ \E i \in DOMAIN last.graph1 :
          /\ Len(EdgesOf(last.m.heap, last.graph1[i].edges)) = 2
          /\ \E e \in Range(EdgesOf(last.m.heap, last.graph1[i].edges)) :
                e.endpoint_ids = << last.graph1[i].id, last.graph1[i].id >>
    /\ \E i \in DOMAIN last.graph1 : last.graph1[i].edges = NULL

-----------------------------------------------------------------------------
(* C5: series composition *)

IdsAndLabels(graph) == [ i \in DOMAIN graph |-> << graph[i].id, graph[i].label >> ]

Composed ==
    /\ last.op = "series_graph_composition"
    /\ find_node(last.graph1, last.source_id) # 0
    /\ find_node(last.graph2, last.sink_id) # 0

\* C5: when source_id resolves in graph1 and sink_id in graph2, the graph returned by
\* series_graph_composition holds the nodes of graph1 followed by the nodes of graph2,
\* none merged, and, besides the original edges, exactly two new edges labelled
\* "series_composition_edge" with weight 0: one owned by the graph1 node and pointing to
\* the graph2 node, one owned by the graph2 node and pointing back.
C5_SeriesAddsTwoEdges ==
    Composed =>
        LET orig  == GraphEdges(last.m.heap, last.graph1 \o last.graph2)
            now   == GraphEdges(heap, result)
            new   == SelectSeq(now, LAMBDA e : e.id \notin Range(EdgeIds(orig)))
            left  == find_node(last.graph1, last.source_id)
            right == Len(last.graph1) + find_node(last.graph2, last.sink_id)
        IN  /\ IdsAndLabels(result) = IdsAndLabels(last.graph1 \o last.graph2)
            /\ SelectSeq(now, LAMBDA e : e.id \in Range(EdgeIds(orig))) = orig
            /\ Len(new) = 2
            /\ \A e \in Range(new) : e.label = "series_composition_edge" /\ e.weight = 0
            /\ \E e \in Range(EdgesOf(heap, result[left].edges)) :
                  e \in Range(new) /\ e.endpoint_ids = << last.source_id, last.sink_id >>
            /\ \E e \in Range(EdgesOf(heap, result[right].edges)) :
                  e \in Range(new) /\ e.endpoint_ids = << last.sink_id, last.source_id >>

-----------------------------------------------------------------------------
(* C6, C7, C8: cartesian product *)

Multiplied == last.op = "cartesian_graph_product"

\* C6: cartesian_graph_product(G1, G2) returns |G1| * |G2| nodes (none when either graph
\* is empty), laid out as |G1| consecutive layers of |G2| nodes, the p-th node of every
\* layer carrying the label of G2's p-th node, all with pairwise distinct node ids that
\* no node of G1 or G2 holds.
C6_CartesianNodes ==
    Multiplied =>
        LET n1 == Len(last.graph1)
            n2 == Len(last.graph2)
        IN  /\ Len(result) = n1 * n2
            /\ \A a \in 0 .. n1 - 1 : \A p \in 1 .. n2 :
                  result[a * n2 + p].label = last.graph2[p].label
            /\ Distinct(NodeIds(result))
            /\ Range(NodeIds(result)) \cap Range(NodeIds(graph1 \o graph2)) = {}
            /\ Range(NodeIds(result)) \cap Range(revoked_node_ids) = {}

\* Two graphs of two nodes; the product takes ids from the pool and from the counter
C6_Witness ==
    /\ Multiplied
    /\ Len(last.graph1) = 2
    /\ Len(last.graph2) = 2
    /\ Len(result) = 4
    /\ last.m.revoked_node_ids # <<>>
    /\ global_node_id > last.m.global_node_id

Plain(h, graph) == Simple(h, graph) /\ NoSelfLoops(h, graph) /\ NoDangling(h, graph)

\* C7: for simple graphs G1 and G2 without self-loops and dangling edges, the number of
\* edges reachable from the nodes of cartesian_graph_product(G1, G2) is
\* |G1| * E(G2) + E(G1) * |G2|.
C7_CartesianEdgeCount ==
    ( Multiplied /\ Plain(last.m.heap, last.graph1) /\ Plain(last.m.heap, last.graph2) )
    => Len(GraphEdges(heap, result))
          = Len(last.graph1) * Len(GraphEdges(last.m.heap, last.graph2))
               + Len(GraphEdges(last.m.heap, last.graph1)) * Len(last.graph2)

\* The i-th node of the graph has an edge whose destination is the j-th node
Adjacent(h, graph, i, j) ==
    \E e \in Range(EdgesOf(h, graph[i].edges)) : e.endpoint_ids[2] = graph[j].id

\* C8: in cartesian_graph_product(G1, G2) the node at position a*|G2|+p has an edge to
\* the node at position b*|G2|+q iff (a = b and G2's p-th node has an edge to G2's q-th
\* node) or (p = q and G1's a-th node has an edge to G1's b-th node); the edges across
\* layers carry label "cartesian_product_edge" and weight 0.
C8_CartesianAdjacency ==
    Multiplied =>
        LET n1 == Len(last.graph1)
            n2 == Len(last.graph2)
        IN  \A a \in 1 .. n1 : \A b \in 1 .. n1 : \A p \in 1 .. n2 : \A q \in 1 .. n2 :
              LET x == (a - 1) * n2 + p
                  y == (b - 1) * n2 + q
              IN  /\ Adjacent(heap, result, x, y)
                        <=> \/ a = b /\ Adjacent(last.m.heap, last.graph2, p, q)
                            \/ p = q /\ Adjacent(last.m.heap, last.graph1, a, b)
                  /\ a # b =>
                        \A e \in Range(EdgesOf(heap, result[x].edges)) :
                           e.endpoint_ids[2] = result[y].id =>
                              e.label = "cartesian_product_edge" /\ e.weight = 0

-----------------------------------------------------------------------------
(* C11: disjoint union *)

\* The counters and the recycle pools are what they were before the last call
SameIdState ==
    /\ global_node_id = last.m.global_node_id
    /\ revoked_node_ids = last.m.revoked_node_ids
    /\ global_edge_id = last.m.global_edge_id
    /\ revoked_edge_ids = last.m.revoked_edge_ids

\* The caller's two graphs hold the nodes and edges they held before the last call
SameInputs ==
    /\ IdsAndLabels(graph1) = IdsAndLabels(last.graph1)
    /\ IdsAndLabels(graph2) = IdsAndLabels(last.graph2)
    /\ \A i \in DOMAIN graph1 :
          EdgesOf(heap, graph1[i].edges) = EdgesOf(last.m.heap, last.graph1[i].edges)
    /\ \A i \in DOMAIN graph2 :
          EdgesOf(heap, graph2[i].edges) = EdgesOf(last.m.heap, last.graph2[i].edges)

United == last.op = "disjoint_graph_union"

\* C11: disjoint_graph_union(graph1, graph2) returns |graph1| + |graph2| nodes, those of
\* graph1 in order followed by those of graph2 in order, each with its id, label and
\* outgoing edges (ids, weights, labels, endpoints); no id is allocated or recycled and
\* the node lists of graph1 and graph2 are unchanged.
C11_DisjointUnion ==
    United =>
        LET both == last.graph1 \o last.graph2
        IN  /\ Len(result) = Len(last.graph1) + Len(last.graph2)
            /\ IdsAndLabels(result) = IdsAndLabels(both)
            /\ \A i \in DOMAIN result :
                  EdgesOf(heap, result[i].edges) = EdgesOf(last.m.heap, both[i].edges)
            /\ SameIdState
            /\ SameInputs

\* Two graphs of two nodes, each with an edge, united
C11_Witness ==
    /\ United
    /\ Len(last.graph1) = 2
    /\ Len(last.graph2) = 2
    /\ Len(result) = 4
    /\ GraphEdges(heap, graph1) # <<>>
    /\ GraphEdges(heap, graph2) # <<>>
    /\ IdsAndLabels(graph1) # IdsAndLabels(graph2)

-----------------------------------------------------------------------------
(* C12: parallel composition *)

Paralleled ==
    /\ last.op = "parallel_graph_composition"
    /\ find_node(last.graph1, last.source_1) # 0
    /\ find_node(last.graph1, last.sink_1) # 0
    /\ find_node(last.graph2, last.source_2) # 0
    /\ find_node(last.graph2, last.sink_2) # 0

DisjointIds(g1, g2) == Range(NodeIds(g1)) \cap Range(NodeIds(g2)) = {}

\* C12: for graphs with disjoint node ids, all four ids resolving and source2 # sink2,
\* parallel_graph_composition returns |graph1| + |graph2| - 2 nodes, among them source1
\* and sink1 but neither source2 nor sink2, and no edge of the returned graph has source2
\* or sink2 as an endpoint: an edge that pointed to source2 points to source1, an edge
\* that pointed to sink2 points to sink1.
C12_ParallelMergesTerminals ==
    ( Paralleled /\ DisjointIds(last.graph1, last.graph2) /\ last.source_2 # last.sink_2 )
    => /\ Len(result) = Len(last.graph1) + Len(last.graph2) - 2
       /\ find_node(result, last.source_1) # 0
       /\ find_node(result, last.sink_1) # 0
       /\ find_node(result, last.source_2) = 0
       /\ find_node(result, last.sink_2) = 0
       /\ \A e \in Range(GraphEdges(heap, result)) :
             /\ e.endpoint_ids[1] \notin { last.source_2, last.sink_2 }
             /\ e.endpoint_ids[2] \notin { last.source_2, last.sink_2 }
             /\ \A o \in Range(GraphEdges(last.m.heap, last.graph1 \o last.graph2)) :
                   o.id = e.id =>
                      /\ o.endpoint_ids[2] = last.source_2 => e.endpoint_ids[2] = last.source_1
                      /\ o.endpoint_ids[2] = last.sink_2 => e.endpoint_ids[2] = last.sink_1

\* Two graphs of two nodes with distinct terminals; graph2 has an edge into its source
\* and an edge into its sink, and the first survives in the result, redirected
C12_Witness ==
    /\ Paralleled
    /\ last.source_1 # last.sink_1
    /\ last.source_2 # last.sink_2
    /\ Len(result) = 2
    /\ \E o \in Range(GraphEdges(last.m.heap, last.graph2)) :
          o.endpoint_ids[2] = last.sink_2
    /\ \E o \in Range(GraphEdges(last.m.heap, last.graph2)) :
          /\ o.endpoint_ids[2] = last.source_2
          /\ \E e \in Range(GraphEdges(heap, result)) :
                e.id = o.id /\ e.endpoint_ids[2] = last.source_1

-----------------------------------------------------------------------------
(* C13: compositions given an id that does not resolve *)

\* The last call was a composition with an id absent from its graph, and it returned
Refused ==
    /\ phase = "done"
    /\ \/ /\ last.op = "parallel_graph_composition"
          /\ \/ MissesNode(last.graph1, last.source_1)
             \/ MissesNode(last.graph1, last.sink_1)
             \/ MissesNode(last.graph2, last.source_2)
             \/ MissesNode(last.graph2, last.sink_2)
       \/ /\ last.op = "series_graph_composition"
          /\ \/ MissesNode(last.graph1, last.source_id)
             \/ MissesNode(last.graph2, last.sink_id)

\* C13: parallel_graph_composition given any of its four ids, or series_graph_composition
\* either of its two ids, that does not resolve in the relevant graph returns the empty
\* result; both input graphs keep the same nodes and edges, and neither counter nor
\* recycle pool changes.
C13_CompositionRefusesAbsentId ==
    Refused => result = <<>> /\ SameInputs /\ SameIdState /\ heap = last.m.heap

\* A series composition whose source resolves and whose sink does not, on graphs with
\* edges, has returned
C13_Witness ==
    /\ Refused
    /\ last.op = "series_graph_composition"
    /\ ~ MissesNode(last.graph1, last.source_id)
    /\ MissesNode(last.graph2, last.sink_id)
    /\ GraphEdges(heap, graph1) # <<>>
    /\ Len(graph2) = 2

-----------------------------------------------------------------------------
(* C14: vertex contraction given an id that does not resolve *)

Declined ==
    /\ last.op = "vertex_contraction"
    /\ phase = "done"
    /\ MissesNode(last.graph1, last.first) \/ MissesNode(last.graph1, last.second)

\* C14: vertex_contraction(graph, keep_id, drop_id) with a keep_id or a drop_id that does
\* not resolve in the graph is a no-op: the returned graph has the same nodes in the same
\* order with the same edges, and the recycle pools and the counters are unchanged.
C14_ContractionNoOp ==
    Declined => SameInputs /\ SameIdState /\ heap = last.m.heap

\* Three nodes with edges; keep resolves and has an edge, drop does not resolve
C14_Witness ==
    /\ Declined
    /\ Len(graph1) = 3
    /\ ~ MissesNode(last.graph1, last.first)
    /\ MissesNode(last.graph1, last.second)
    /\ OutEdges(heap, graph1, last.first) # <<>>
    /\ revoked_node_ids # <<>>

-----------------------------------------------------------------------------
(* C15: graph destruction *)

Destroyed == last.op = "delete_graph"

\* The node ids and the edge ids of the graph are pairwise distinct and none is in a pool
LiveAndDistinct(M, graph) ==
    /\ Distinct(NodeIds(graph))
    /\ Distinct(EdgeIds(GraphEdges(M.heap, graph)))
    /\ Range(NodeIds(graph)) \cap Range(M.revoked_node_ids) = {}
    /\ Range(EdgeIds(GraphEdges(M.heap, graph))) \cap Range(M.revoked_edge_ids) = {}

\* C15: delete_graph on a graph whose node ids and edge ids are live and pairwise distinct
\* appends every node id once and every edge id owned by its nodes once to the respective
\* recycle pool, adds no other id to either pool, and returns the empty graph.
C15_DeleteGraphRecycles ==
    ( Destroyed /\ LiveAndDistinct(last.m, last.graph1) )
    => /\ graph1 = <<>>
       /\ revoked_node_ids = last.m.revoked_node_ids \o NodeIds(last.graph1)
       /\ revoked_edge_ids
             = last.m.revoked_edge_ids \o EdgeIds(GraphEdges(last.m.heap, last.graph1))
       /\ global_node_id = last.m.global_node_id
       /\ global_edge_id = last.m.global_edge_id

\* A graph of three nodes and three edges destroyed while both pools held ids
C15_Witness ==
    /\ Destroyed
    /\ LiveAndDistinct(last.m, last.graph1)
    /\ Len(last.graph1) = 3
    /\ Len(GraphEdges(last.m.heap, last.graph1)) = 3
    /\ last.m.revoked_node_ids # <<>>
    /\ last.m.revoked_edge_ids # <<>>
    /\ graph1 = <<>>

-----------------------------------------------------------------------------
(* C16: liveness queries on ids *)

\* C16: exists_node_from_id (exists_edge_from_id) answers true exactly when the id is at
\* most the highest id ever issued and is not in the recycle pool; an id above the
\* highest issued one is reported as not in use.
C16_ExistsIffIssuedAndLive ==
    /\ last.op = "exists_node_from_id"
          => ( last.exists <=> ( /\ last.id <= HighestNodeId
                                 /\ last.id \notin Range(revoked_node_ids) ) )
    /\ last.op = "exists_edge_from_id"
          => ( last.exists <=> ( /\ last.id <= HighestEdgeId
                                 /\ last.id \notin Range(revoked_edge_ids) ) )

-----------------------------------------------------------------------------
(* C17: adjacency matrix *)

Tabulated == last.op = "create_graph_matrix"

\* C17: create_graph_matrix on a non-empty graph gives a square 0/1 matrix whose dimension
\* is the node count, rows and columns in list order, with cell (i, j) = 1 exactly when
\* node i owns at least one edge whose destination is the id of node j; the graph, the
\* counters and the pools are left as they were.
C17_AdjacencyMatrix ==
    Tabulated
    => /\ Len(last.mat) = Len(graph1)
       /\ \A i \in DOMAIN graph1 :
             /\ Len(last.mat[i]) = Len(graph1)
             /\ \A j \in DOMAIN graph1 :
                   /\ last.mat[i][j] \in { 0, 1 }
                   /\ last.mat[i][j] = 1
                         <=> \E k \in DOMAIN EdgesOf(heap, graph1[i].edges) :
                                EdgesOf(heap, graph1[i].edges)[k].endpoint_ids[2] = graph1[j].id
       /\ SameInputs
       /\ SameIdState
       /\ heap = last.m.heap

\* Three nodes, an edge from the first to the second and none back, and a self-loop
C17_Witness ==
    /\ Tabulated
    /\ Len(graph1) = 3
    /\ last.mat[1][2] = 1
    /\ last.mat[2][1] = 0
    /\ \E i \in DOMAIN graph1 : last.mat[i][i] = 1

-----------------------------------------------------------------------------
(* C18: termination of vertex_contraction *)

\* The step-by-step run gives what vertex_contraction gives when the two nodes differ
StepwiseAgrees ==
    ( phase = "done" /\ last.op = "vertex_contraction" /\ last.first # last.second )
    => LET r == vertex_contraction(last.m, last.graph1, last.first, last.second)
       IN  /\ graph1 = r.graph
           /\ heap = r.m.heap
           /\ revoked_node_ids = r.m.revoked_node_ids
           /\ revoked_edge_ids = r.m.revoked_edge_ids

\* With keep_id = drop_id every turn of the loop leaves as many cells ahead of ptr as the
\* list held on entry: the end of the list is never nearer, whatever the allocation bound
NoProgress ==
    ( phase = "append" /\ last.first = last.second )
    => Len(ListCells(heap, last.ptr))
          = Len(ListCells(heap, graph1[get_node_from_id(graph1, last.first)].edges))
               - ( Len(heap) - Len(last.m.heap) )

-----------------------------------------------------------------------------
(* C19: insertion at the head *)

\* C19: push_node (push_edge) returns, for every collection, the empty one included, a
\* collection whose first element is the inserted one, followed by the previous elements
\* in their order: the length grows by one.
C19_PushInsertsAtHead ==
    /\ last.op = "push_node" => graph1 = << last.node >> \o last.graph1
    /\ last.op = "push_edge"
          => EdgesOf(heap, graph1[last.owner].edges)
                = << last.edge >> \o EdgesOf(last.m.heap, last.graph1[last.owner].edges)

-----------------------------------------------------------------------------
(* C20: removal of one edge *)

Removed == last.op = "delete_edge"

\* The edges of every node of the graph, node by node
EdgeLists(h, graph) == [ i \in DOMAIN graph |-> EdgesOf(h, graph[i].edges) ]

\* The id was issued before the call and is not in the pool
LiveEdgeId(M, id) == id < M.global_edge_id /\ id \notin Range(M.revoked_edge_ids)

\* C20: delete_edge(edges, id), when id is live and an edge with that id is in the
\* collection, removes exactly that edge, keeps the others in their order and appends id
\* once at the tail of the edge pool; when the id is absent or not live the collection,
\* the pool and the counter are unchanged.  Nothing else changes in either case.
C20_DeleteEdge ==
    Removed
    => LET before == EdgeLists(last.m.heap, last.graph1)
           after  == EdgeLists(heap, graph1)
           own    == before[last.owner]
       IN  /\ IdsAndLabels(graph1) = IdsAndLabels(last.graph1)
           /\ \A i \in DOMAIN before : i # last.owner => after[i] = before[i]
           /\ global_edge_id = last.m.global_edge_id
           /\ global_node_id = last.m.global_node_id
           /\ revoked_node_ids = last.m.revoked_node_ids
           /\ IF /\ LiveEdgeId(last.m, last.id)
                 /\ \E k \in DOMAIN own : own[k].id = last.id
              THEN /\ \E k \in DOMAIN own :
                         /\ own[k].id = last.id
                         /\ after[last.owner] = RemoveAt(own, k)
                   /\ \A k \in DOMAIN after[last.owner] : after[last.owner][k].id # last.id
                   /\ revoked_edge_ids = Append(last.m.revoked_edge_ids, last.id)
              ELSE /\ after[last.owner] = own
                   /\ revoked_edge_ids = last.m.revoked_edge_ids

\* The second of two edges of a node is removed
C20_Witness ==
    /\ Removed
    /\ LiveEdgeId(last.m, last.id)
    /\ Len(EdgesOf(last.m.heap, last.graph1[last.owner].edges)) = 2
    /\ EdgesOf(last.m.heap, last.graph1[last.owner].edges)[2].id = last.id
    /\ Len(EdgesOf(heap, graph1[last.owner].edges)) = 1

-----------------------------------------------------------------------------
(* C21: removal of one node *)

Unlinked == last.op = "delete_node"

\* C21: delete_node(graph, id) removes exactly the node with that id when there is one,
\* keeps the other nodes in their order, appends id once to the node pool and leaves the
\* edge collections of all other nodes as they were, edges into the deleted node
\* included; when no node has the id, the graph and both pools are unchanged.
C21_DeleteNode ==
    Unlinked
    => LET k == find_node(last.graph1, last.id)
       IN  /\ heap = last.m.heap
           /\ revoked_edge_ids = last.m.revoked_edge_ids
           /\ global_node_id = last.m.global_node_id
           /\ global_edge_id = last.m.global_edge_id
           /\ IF \E i \in DOMAIN last.graph1 : last.graph1[i].id = last.id
              THEN /\ graph1 = RemoveAt(last.graph1, k)
                   /\ last.graph1[k].id = last.id
                   /\ \A i \in DOMAIN graph1 : graph1[i].id # last.id
                   /\ EdgeLists(heap, graph1)
                         = RemoveAt(EdgeLists(last.m.heap, last.graph1), k)
                   /\ revoked_node_ids = Append(last.m.revoked_node_ids, last.id)
              ELSE /\ graph1 = last.graph1
                   /\ revoked_node_ids = last.m.revoked_node_ids

\* The middle node of three is removed while another node owns an edge into it
C21_Witness ==
    /\ Unlinked
    /\ Len(last.graph1) = 3
    /\ last.graph1[2].id = last.id
    /\ Len(graph1) = 2
    /\ \E e \in Range(GraphEdges(heap, graph1)) : e.endpoint_ids[2] = last.id

-----------------------------------------------------------------------------
(* C22: allocation failure inside an algebra operation *)

\* C22: when a malloc of append_node or append_edge fails inside an algebra operation, the
\* operation returns a failure result (no graph) and the graphs it was given, both
\* counters and both recycle pools are what they were before the call.
C22_ExhaustionLeavesStateAlone ==
    ( phase = "done" /\ FALSE \in Range(last.mallocs) )
    => /\ result = <<>>
       /\ SameInputs
       /\ SameIdState

-----------------------------------------------------------------------------
(* C23: no identifier is leaked *)

\* How many times x occurs in s
Count(s, x) == Cardinality({ i \in DOMAIN s : s[i] = x })

\* C23: after any sequence of constructions, insertions and deletions, every id issued so
\* far in a namespace (1 up to counter - 1) is either held by exactly one node (edge)
\* reachable from a graph or present exactly once in the namespace's recycle pool; this
\* includes the ids of the outgoing edges of a node removed by delete_node.
C23_NoIdLeaked ==
    /\ \A id \in 1 .. HighestNodeId :
          Count(NodeIds(graph1 \o graph2), id) + Count(revoked_node_ids, id) = 1
    /\ \A id \in 1 .. HighestEdgeId :
          Count(EdgeIds(GraphEdges(heap, graph1 \o graph2)), id)
             + Count(revoked_edge_ids, id) = 1

-----------------------------------------------------------------------------
(* C24: parallel edges between the two contracted nodes *)

\* The edges of the list whose destination is dest, in list order
EdgesTo(es, dest) == SelectSeq(es, LAMBDA e : e.endpoint_ids[2] = dest)

\* C24: when keep owns k >= 1 edges to drop and drop owns m >= 1 edges to keep,
\* vertex_contraction(graph, keep, drop) deletes, and recycles the id of, exactly one edge
\* per direction, the first in list order; the other k - 1 and m - 1 edges survive as
\* self-loops on keep.
C24_OneEdgePerDirection ==
    LET forth == EdgesTo(OutEdges(last.m.heap, last.graph1, last.first), last.second)
        back  == EdgesTo(OutEdges(last.m.heap, last.graph1, last.second), last.first)
    IN  ( Contracted /\ forth # <<>> /\ back # <<>> )
        => /\ revoked_edge_ids
                 = last.m.revoked_edge_ids \o << Head(forth).id, Head(back).id >>
           /\ \A e \in Range(Tail(forth)) \cup Range(Tail(back)) :
                 \E n \in Range(OutEdges(heap, graph1, last.first)) :
                    n.id = e.id /\ n.endpoint_ids = << last.first, last.first >>

-----------------------------------------------------------------------------
(* C25, C26: structural copy *)

Copied == last.op = "create_graph_copy"

Labels(graph) == [ i \in DOMAIN graph |-> graph[i].label ]

\* C25: create_graph_copy(g) returns a graph with as many nodes as g, the same labels in
\* the same order, node ids and edge ids taken from the allocator and different from
\* every id of a live node or edge of g, and an adjacency matrix equal cell for cell to
\* that of g; g is not modified.
C25_CopyKeepsShape ==
    Copied
    => /\ Len(result) = Len(last.graph1)
       /\ Labels(result) = Labels(last.graph1)
       /\ Distinct(NodeIds(result))
       /\ Distinct(EdgeIds(GraphEdges(heap, result)))
       /\ Range(NodeIds(result)) \cap Range(NodeIds(last.graph1)) = {}
       /\ Range(EdgeIds(GraphEdges(heap, result)))
             \cap Range(EdgeIds(GraphEdges(last.m.heap, last.graph1))) = {}
       /\ Range(NodeIds(result))
             \subseteq Range(last.m.revoked_node_ids)
                          \cup ( last.m.global_node_id .. global_node_id - 1 )
       /\ Range(EdgeIds(GraphEdges(heap, result)))
             \subseteq Range(last.m.revoked_edge_ids)
                          \cup ( last.m.global_edge_id .. global_edge_id - 1 )
       /\ create_graph_matrix(heap, result)
             = create_graph_matrix(last.m.heap, last.graph1)
       /\ SameInputs

\* A copy of three nodes and three edges, not all matrix cells alike, with ids taken both
\* from a recycle pool and from the counter
C25_Witness ==
    /\ Copied
    /\ Len(result) = 3
    /\ Len(GraphEdges(heap, result)) = 3
    /\ last.m.revoked_node_ids # <<>>
    /\ global_node_id > last.m.global_node_id
    /\ \E i \in DOMAIN result : \E j \in DOMAIN result :
          create_graph_matrix(heap, result)[i][j] = 0

\* C26: every edge of create_graph_copy(g) that goes from the node at position i to the
\* node at position j has the weight and the label of an edge of g that goes from g's
\* node at position i to g's node at position j.
C26_CopyKeepsWeightsAndLabels ==
    Copied
    => \A i \in DOMAIN result : \A j \in DOMAIN result :
          \A e \in Range(EdgesOf(heap, result[i].edges)) :
             e.endpoint_ids[2] = result[j].id
             => \E o \in Range(EdgesOf(last.m.heap, last.graph1[i].edges)) :
                   /\ o.endpoint_ids[2] = last.graph1[j].id
                   /\ o.weight = e.weight
                   /\ o.label = e.label

-----------------------------------------------------------------------------
(* C27: relabelling an edge *)

\* An edge without its label
Unlabelled(e) == [ id |-> e.id, weight |-> e.weight, endpoint_ids |-> e.endpoint_ids ]

\* C27: change_edge_label(graph, edge_id, new_label) changes only the label of the edge
\* with that id: every node owns the same edges (ids, weights, endpoints, order) after
\* the call as before, whether or not the id is found and wherever the edge sits.
C27_RelabelKeepsEdges ==
    last.op = "change_edge_label"
    => /\ IdsAndLabels(graph1) = IdsAndLabels(last.graph1)
       /\ \A i \in DOMAIN graph1 :
             LET now    == EdgesOf(heap, graph1[i].edges)
                 before == EdgesOf(last.m.heap, last.graph1[i].edges)
             IN  /\ Len(now) = Len(before)
                 /\ \A k \in DOMAIN now : Unlabelled(now[k]) = Unlabelled(before[k])

-----------------------------------------------------------------------------
(* C28: the returned graph after its inputs are destroyed *)

\* C28: a graph returned by series_graph_composition or disjoint_graph_union stays a
\* valid owner of its ids after its two inputs are destroyed with delete_graph: no node
\* id or edge id it holds is then in a recycle pool, so a node constructed afterwards
\* never receives an id that a node of the returned graph still holds.
C28_ResultOwnsItsIds ==
    /\ phase \in { "destroyed", "rebuilt" }
          => /\ Range(NodeIds(result)) \cap Range(revoked_node_ids) = {}
             /\ Range(EdgeIds(GraphEdges(heap, result))) \cap Range(revoked_edge_ids) = {}
    /\ phase = "rebuilt"
          => Range(NodeIds(graph1)) \cap Range(NodeIds(result)) = {}

-----------------------------------------------------------------------------
(* C29: edge ownership *)

\* Every edge a node of the graph owns begins at that node
Owned(h, graph) ==
    \A i \in DOMAIN graph :
       \A e \in Range(EdgesOf(h, graph[i].edges)) : e.endpoint_ids[1] = graph[i].id

\* The operation returned (it did not trap)
Returned == phase = "done" /\ last.op # "none"

\* The graph the last operation produced
Produced ==
    IF last.op \in { "vertex_contraction", "complement_graph" } THEN graph1 ELSE result

\* The graphs the last operation was given
OwnedBefore ==
    /\ Owned(last.m.heap, last.graph1)
    /\ last.op # "complement_graph" => Owned(last.m.heap, last.graph2)

\* C29: if every edge of the input graphs begins at the node that owns it, the same holds
\* for every edge of the graph produced by vertex_contraction, complement_graph,
\* disjoint_graph_union, cartesian_graph_product, parallel_graph_composition and
\* series_graph_composition.
C29_EdgeOwnership == ( Returned /\ OwnedBefore ) => Owned(heap, Produced)

\* A contraction after which the survivor owns more edges than before: the donor's
\* edges, which began at the donor, were appended to its list
C29_Witness ==
    /\ Returned
    /\ OwnedBefore
    /\ last.op = "vertex_contraction"
    /\ Contracted
    /\ Len(OutEdges(heap, graph1, last.first))
          > Len(OutEdges(last.m.heap, last.graph1, last.first))

-----------------------------------------------------------------------------
(* C30: identifier uniqueness through the algebra *)

\* C30: starting from graphs built through the constructors, in the graph returned by
\* vertex_contraction, complement_graph, cartesian_graph_product,
\* parallel_graph_composition or series_graph_composition all node ids are pairwise
\* distinct, all edge ids are pairwise distinct, and none of those ids is in a recycle
\* pool when the operation returns.
C30_AlgebraKeepsIdsUnique ==
    ( Returned /\ last.op # "disjoint_graph_union" )
    => /\ Distinct(NodeIds(Produced))
       /\ Distinct(EdgeIds(GraphEdges(heap, Produced)))
       /\ Range(NodeIds(Produced)) \cap Range(revoked_node_ids) = {}
       /\ Range(EdgeIds(GraphEdges(heap, Produced))) \cap Range(revoked_edge_ids) = {}

\* A complement that returned at least two new edges while the edge pool held ids
C30_Witness ==
    /\ Returned
    /\ last.op = "complement_graph"
    /\ last.m.revoked_edge_ids # <<>>
    /\ Len(graph1) >= 2
    /\ Len(GraphEdges(heap, graph1)) >= 2

=============================================================================
